---- MODULE Spec2Model ----
(***************************************************************************)
(* Verification model of the weave repository.                             *)
(*                                                                         *)
(*   Part I   the quality scanner (scripts/weave_quality): cmd_scan and    *)
(*            the quality.db cache it writes through db.py.                *)
(*   Part II  the issue reconciler (scripts/weave_gh): the sync lock and   *)
(*            the three phases of _run_full_sync.                          *)
(*   Part III the reconciler's helpers on their own: body.py on the text   *)
(*            of an issue body, and the command wrappers (cli.py _run,     *)
(*            git_metrics.py _git, weave_quality _wv_cmd).                 *)
(*   Part IV  the pure computations of hotspots.py (quality score, fused   *)
(*            hotspot score) on inputs of their own.                       *)
(*   Part V   cmd_promote: findings turned into nodes of the graph.        *)
(*   Part VI  the comments the reconciler posts, as texts.                 *)
(*   Part VII refresh_parent_body running beside one full sync.            *)
(*                                                                         *)
(* The parts share no state.  Each has its own specifications; the         *)
(* variables of the other parts are held constant in them.                 *)
(***************************************************************************)
EXTENDS Integers, Sequences, FiniteSets, TLC

VARIABLES
    fs,        \* working tree: path -> [ver, mtime, tracked]
    db,        \* quality.db as committed (what any other connection reads)
    spc,       \* scanner process -> position in cmd_scan
    sloc,      \* scanner process -> locals of cmd_scan
    shist,     \* history: retained scan id -> what that scan discovered, whether it ended,
               \*          the quality score it printed
    graph,     \* the Weave graph: sequence of node records (wv list order)
    edges,     \* implements edges of the graph: set of <<child id, parent id>>
    remote,    \* the GitHub issues: sequence of issue records, index = number
    repoLabels,\* labels that exist on the GitHub repository
    lock,      \* holder of /tmp/weave/sync.lock (0 = free)
    pc,        \* sync process -> position in _run_full_sync
    loc,       \* sync process -> locals of _run_full_sync and the phases
    ghlog,     \* history: the mutating requests issued so far
    txt,       \* an issue body as text, and the rewrites applied to it
    run,       \* one call of a command wrapper: its attempts and sleeps
    calc,      \* a pure computation (score, fusion): its inputs and its result
    prom       \* the graph as promote sees it, and promote's reports

scanVars == <<fs, db, spc, sloc, shist>>
syncVars == <<graph, edges, remote, repoLabels, lock, pc, loc, ghlog>>
helperVars == <<txt, run, calc, prom>>
vars == <<fs, db, spc, sloc, shist, graph, edges, remote, repoLabels, lock, pc, loc, ghlog,
          txt, run, calc, prom>>

\* No body text is being rewritten; no command wrapper has been called.
IdleText == [orig |-> <<>>, body |-> <<>>, writes |-> 0, block |-> "", wrote |-> FALSE]
IdleRun == [fn |-> "", check |-> FALSE, attempt |-> 0, calls |-> <<>>, slept |-> <<>>,
            pc |-> "idle"]

\* No pure computation is being followed.
IdleCalc == [op |-> ""]

\* No promote has run and the graph holds no node.
IdleProm == [nodes |-> <<>>, refs |-> {}, runs |-> 0, last |-> [ran |-> FALSE]]

(***************************************************************************)
(* Generic helpers                                                         *)
(***************************************************************************)
Max(S) == CHOOSE x \in S : \A y \in S : y <= x
Min(S) == CHOOSE x \in S : \A y \in S : x <= y
Range(s) == {s[i] : i \in 1..Len(s)}

(***************************************************************************)
(* Part I -- quality scanner                                               *)
(***************************************************************************)

\* ---- bounds -------------------------------------------------------------
MaxScans == 4          \* scan ids handed out by AUTOINCREMENT
MaxVer == 2            \* content versions / mtimes a file goes through
MaxParScans == 2       \* scan ids handed out when invocations overlap

\* ---- program constants ---------------------------------------------------
MAX_SCANS == 2         \* _MAX_SCANS
NULL == -1             \* SQL NULL in an INTEGER column

Files == {"a.py", "b.sh"}
Excludes == {{}, {"b.sh"}, {"a.py"}}   \* the --exclude choices of an invocation
ScanProcs == {1, 2}

\* The analyzers: cyclomatic complexity as a function of a file's content.
\* (a.py: 20 then 30; b.sh: 5 then 6 -- the values of the spec's scenarios.)
CxOf(f, ver) == IF f = "a.py" THEN 10 + 10 * ver ELSE 4 + ver

\* Commits touching a file in the (unchanging) history: git log --name-only.
\* An untracked file is in no commit.
ChurnOf(f) == IF ~fs[f].tracked THEN 0 ELSE IF f = "a.py" THEN 100 ELSE 10

IsPy(f) == f = "a.py"

\* os.path.getmtime / blob_map.get(rel_path, "") ; "" is modelled as 0.
MtimeOf(f) == fs[f].mtime
BlobOf(f) == IF fs[f].tracked THEN fs[f].ver ELSE 0

EmptyDb ==
    [seq |-> 0, scan_meta |-> {}, files |-> {}, file_metrics |-> {},
     file_state |-> {}, git_stats |-> {}, trend |-> {}, co_change |-> FALSE]

ScanIds(d) == {m.id : m \in d.scan_meta}

\* db.py begin_scan: INSERT the scan row, prune to the newest _MAX_SCANS rows
\* (ON DELETE CASCADE removes their files / file_metrics rows), conn.commit().
KeptIdsOneMore(ids) == {i \in ids : Cardinality({j \in ids : j > i}) <= MAX_SCANS}

KeptIds(ids) == {i \in ids : Cardinality({j \in ids : j > i}) < MAX_SCANS}

begin_scan(d) ==
    LET id == d.seq + 1
        meta == d.scan_meta \cup {[id |-> id, files_count |-> NULL]}
        keep == KeptIds({m.id : m \in meta})
    IN [d EXCEPT !.seq = id,
                 !.scan_meta = {m \in meta : m.id \in keep},
                 !.files = {r \in d.files : r.scan_id \in keep},
                 !.file_metrics = {r \in d.file_metrics : r.scan_id \in keep},
                 !.trend = {r \in d.trend : r.scan_id \in keep}]

\* db.py finish_scan: UPDATE scan_meta SET files_count WHERE id = ?; commit.
finish_scan(d, sid, n) ==
    [d EXCEPT !.scan_meta =
        {IF m.id = sid THEN [m EXCEPT !.files_count = n] ELSE m : m \in d.scan_meta}]

\* db.py latest_scan / previous_scan: newest and second-newest scan_meta id (0: None).
latest_scan(d) == IF d.scan_meta = {} THEN 0 ELSE Max(ScanIds(d))
previous_scan(d) ==
    IF Cardinality(d.scan_meta) < 2 THEN 0
    ELSE Max(ScanIds(d) \ {Max(ScanIds(d))})

\* db.py get_file_entries(conn, scan_id)
get_file_entries(d, sid) == {r \in d.files : r.scan_id = sid}

\* db.py upsert_file_entry: ON CONFLICT(path, scan_id) DO UPDATE.
upsert_files(rows, new) ==
    {r \in rows : ~\E n \in new : n.path = r.path /\ n.scan_id = r.scan_id} \cup new

\* db.py upsert_ck_metrics: ON CONFLICT(path, scan_id, metric) DO UPDATE.
upsert_metrics(rows, new) ==
    {r \in rows : ~\E n \in new :
        n.path = r.path /\ n.scan_id = r.scan_id /\ n.metric = r.metric} \cup new

\* __main__.py carry-forward: INSERT OR IGNORE INTO file_metrics.
insert_or_ignore_metrics(rows, new) ==
    rows \cup {n \in new : ~\E r \in rows :
        n.path = r.path /\ n.scan_id = r.scan_id /\ n.metric = r.metric}

\* db.py upsert_file_state / upsert_git_stats: ON CONFLICT(path) DO UPDATE.
upsert_by_path(rows, new) ==
    {r \in rows : ~\E n \in new : n.path = r.path} \cup new

\* db.py file_changed: not in file_state -> changed; both blobs known -> the
\* blobs decide; otherwise the mtime decides.
file_changed(d, f, mtime, blob) ==
    LET st == {r \in d.file_state : r.path = f}
    IN IF st = {} THEN TRUE
       ELSE LET r == CHOOSE x \in st : TRUE
            IN IF blob # 0 /\ r.git_blob # 0 THEN blob # r.git_blob
               ELSE mtime # r.mtime

\* git_metrics.py build_file_state with the blob map already fetched.
build_file_state(f) == [path |-> f, mtime |-> MtimeOf(f), git_blob |-> BlobOf(f)]

\* hotspots.py _normalize_values / compute_hotspots, on the paths that have both
\* an entry and a git_stats row.  hotspot = round(norm(cx) * norm(churn), 4),
\* kept here as an integer number of 1/10000ths.
HotScale == 10000

RoundDiv(num, den) == (2 * num + den) \div (2 * den)

HotspotOfComplexityOnly(f, common, cx, churn) ==
    LET clo == Min({cx[g] : g \in common})
        chi == Max({cx[g] : g \in common})
    IN IF chi = clo THEN 0
       ELSE RoundDiv(HotScale * (cx[f] - clo), chi - clo)

HotspotOf(f, common, cx, churn) ==
    LET clo == Min({cx[g] : g \in common})
        chi == Max({cx[g] : g \in common})
        hlo == Min({churn[g] : g \in common})
        hhi == Max({churn[g] : g \in common})
    IN IF chi = clo \/ hhi = hlo THEN 0
       ELSE RoundDiv(HotScale * (cx[f] - clo) * (churn[f] - hlo),
                     (chi - clo) * (hhi - hlo))

\* git_metrics.py enrich_all_git_stats + hotspots.py compute_hotspots: one
\* GitStats per requested path, hotspot filled in for the paths with an entry.
compute_hotspots(entries, paths) ==
    LET common == {e.path : e \in entries} \cap paths
        cx == [g \in common |-> (CHOOSE e \in entries : e.path = g).cx]
        churn == [g \in common |-> ChurnOf(g)]
    IN {[path |-> f, churn |-> ChurnOf(f),
         hotspot |-> IF f \in common THEN HotspotOf(f, common, cx, churn) ELSE 0]
        : f \in paths}

\* ORDER BY hotspot DESC
RECURSIVE OrderByHotspotDesc(_)
OrderByHotspotDesc(rows) ==
    IF rows = {} THEN <<>>
    ELSE LET g == CHOOSE x \in rows : \A y \in rows : y.hotspot <= x.hotspot
         IN <<g>> \o OrderByHotspotDesc(rows \ {g})

\* db.py top_hotspots: WHERE hotspot > 0 ORDER BY hotspot DESC LIMIT top_n
top_hotspots(d, top_n) ==
    LET ranked == OrderByHotspotDesc({g \in d.git_stats : g.hotspot > 0})
    IN SubSeq(ranked, 1, Min({top_n, Len(ranked)}))

\* __main__.py cmd_hotspots --json: the "hotspots" list (path, hotspot and the
\* complexity of the latest scan's entry, 0 without one); empty without a scan.
cmd_hotspots(d, top_n) ==
    IF latest_scan(d) = 0 THEN <<>>
    ELSE LET ranked == top_hotspots(d, top_n)
             entries == get_file_entries(d, latest_scan(d))
             cc(path) == IF \E e \in entries : e.path = path
                         THEN (CHOOSE e \in entries : e.path = path).cx ELSE 0
         IN [i \in 1..Len(ranked) |->
                [path |-> ranked[i].path, hotspot |-> ranked[i].hotspot,
                 complexity |-> cc(ranked[i].path)]]

InitScanLoc ==
    [scan_id |-> 0, all_files |-> {}, to_scan |-> {}, unchanged |-> {},
     entries |-> {}, pend |-> {}, gstats |-> {}, dbBefore |-> EmptyDb,
     out |-> [files_scanned |-> 0, files_changed |-> 0, quality_score |-> 100]]

InitScan ==
    /\ fs \in {g \in [Files -> [ver : {1}, mtime : {1}, tracked : BOOLEAN]] :
                   g["a.py"].tracked}
    /\ db = EmptyDb
    /\ spc = [p \in ScanProcs |-> "idle"]
    /\ sloc = [p \in ScanProcs |-> InitScanLoc]
    /\ shist = <<>>
    \* the reconciler is not running
    /\ graph = <<>>
    /\ edges = {}
    /\ remote = <<>>
    /\ repoLabels = {}
    /\ lock = 0
    /\ pc = <<>>
    /\ loc = <<>>
    /\ ghlog = <<>>
    /\ txt = IdleText
    /\ run = IdleRun
    /\ calc = IdleCalc
    /\ prom = IdleProm

\* ---- cmd_scan, one action per committed segment --------------------------

\* cmd_scan up to begin_scan: discovery (with this invocation's exclude globs)
\* and the new scan row.  begin_scan commits.
ScanBegin(p, cap) ==
    /\ spc[p] = "idle"
    /\ db.seq < cap
    /\ db' = begin_scan(db)
    /\ \E ex \in Excludes :
          /\ sloc' = [sloc EXCEPT ![p] =
                [InitScanLoc EXCEPT !.scan_id = db.seq + 1,
                                    !.all_files = Files \ ex,
                                    !.dbBefore = db]]
          /\ shist' = [i \in ScanIds(db') |->
                IF i \in DOMAIN shist
                THEN [shist[i] EXCEPT !.fs = <<>>, !.prevDone = FALSE, !.prevSame = FALSE]
                ELSE [files |-> Files \ ex, done |-> FALSE, fs |-> fs,
                      score |-> NULL,
                      prevDone |-> (db.seq \in DOMAIN shist /\ shist[db.seq].done),
                      prevSame |-> (/\ db.seq \in DOMAIN shist
                                    /\ shist[db.seq].fs = fs
                                    /\ shist[db.seq].files = Files \ ex)]]
    /\ spc' = [spc EXCEPT ![p] = "begun"]
    /\ UNCHANGED fs
    /\ UNCHANGED <<syncVars, helperVars>>

\* The foreign key files.scan_id -> scan_meta(id): a row for a pruned scan
\* cannot be inserted (sqlite3.IntegrityError ends the command).
FkOk(d, sid) == sid \in ScanIds(d)

\* cmd_scan: staleness partition, analysis of the changed files,
\* bulk_upsert_file_entries (which commits).
ScanAnalyze(p) ==
    /\ spc[p] = "begun"
    /\ LET l == sloc[p]
           to_scan == {f \in l.all_files : file_changed(db, f, MtimeOf(f), BlobOf(f))}
           entries == {[path |-> f, scan_id |-> l.scan_id, cx |-> CxOf(f, fs[f].ver)]
                       : f \in to_scan}
           cks == {[path |-> f, scan_id |-> l.scan_id, metric |-> "wmc",
                    value |-> CxOf(f, fs[f].ver)] : f \in {g \in to_scan : IsPy(g)}}
       IN IF entries # {} /\ ~FkOk(db, l.scan_id)
          THEN /\ spc' = [spc EXCEPT ![p] = "failed"]
               /\ UNCHANGED <<db, sloc>>
          ELSE /\ db' = [db EXCEPT !.files = upsert_files(db.files, entries)]
               /\ sloc' = [sloc EXCEPT ![p] =
                     [l EXCEPT !.to_scan = to_scan,
                               !.unchanged = l.all_files \ to_scan,
                               !.entries = entries,
                               !.pend = cks]]
               /\ spc' = [spc EXCEPT ![p] = "analysed"]
    /\ UNCHANGED <<fs, shist>>
    /\ UNCHANGED <<syncVars, helperVars>>

\* cmd_scan: carry forward the unchanged files from previous_scan.  The
\* carried entries are committed by bulk_upsert_file_entries (together with
\* the CK rows upserted just before); the carried file_metrics rows stay
\* pending until the next commit.
ScanCarry(p) ==
    /\ spc[p] = "analysed"
    /\ LET l == sloc[p]
           prev == previous_scan(db)
           prev_entries == IF prev = 0 THEN {} ELSE get_file_entries(db, prev)
           carried == {[path |-> e.path, scan_id |-> l.scan_id, cx |-> e.cx]
                       : e \in {x \in prev_entries : x.path \in l.unchanged}}
           fm == {[path |-> r.path, scan_id |-> l.scan_id, metric |-> r.metric,
                   value |-> r.value]
                  : r \in {x \in db.file_metrics :
                             x.scan_id = prev /\ x.path \in {c.path : c \in carried}}}
       IN IF carried = {}
          THEN /\ spc' = [spc EXCEPT ![p] = "carried"]
               /\ UNCHANGED <<db, sloc>>
          ELSE IF ~FkOk(db, l.scan_id)
          THEN /\ spc' = [spc EXCEPT ![p] = "failed"]
               /\ UNCHANGED <<db, sloc>>
          ELSE /\ db' = [db EXCEPT
                     !.files = upsert_files(db.files, carried),
                     !.file_metrics = upsert_metrics(db.file_metrics, l.pend)]
               /\ sloc' = [sloc EXCEPT ![p] =
                     [l EXCEPT !.entries = l.entries \cup carried,
                               !.pend = fm]]
               /\ spc' = [spc EXCEPT ![p] = "carried"]
    /\ UNCHANGED <<fs, shist>>
    /\ UNCHANGED <<syncVars, helperVars>>

\* hotspots.py compute_quality_score over the entries list and the stats list.
\* stats is the list enrich_all_git_stats returned for
\* [e.path for e in entries] + files_unchanged: mult[f] is how often f is in it.
HOTSPOT_THRESHOLD == 5000     \* 0.5, in 1/10000ths
CC_CRITICAL == 30
CC_WARNING == 15

SumOver(S, w(_)) ==
    LET RECURSIVE Go(_)
        Go(T) == IF T = {} THEN 0
                 ELSE LET x == CHOOSE y \in T : TRUE IN w(x) + Go(T \ {x})
    IN Go(S)

compute_quality_score_unclamped(entries, gstats, mult) ==
    IF entries = {} THEN 100
    ELSE LET hot(g) == IF g.hotspot > HOTSPOT_THRESHOLD THEN 5 * mult[g.path] ELSE 0
             cxd(e) == IF e.cx >= CC_CRITICAL THEN 3
                       ELSE IF e.cx >= CC_WARNING THEN 1 ELSE 0
         IN 100 - SumOver(gstats, hot) - SumOver(entries, cxd)

compute_quality_score(entries, gstats, mult) ==
    IF entries = {} THEN 100
    ELSE LET hot(g) == IF g.hotspot > HOTSPOT_THRESHOLD THEN 5 * mult[g.path] ELSE 0
             cxd(e) == IF e.cx >= CC_CRITICAL THEN 3
                       ELSE IF e.cx >= CC_WARNING THEN 1 ELSE 0
             score == 100 - SumOver(gstats, hot) - SumOver(entries, cxd)
         IN Max({0, Min({100, score})})

\* cmd_scan: trend rows, file_state of the analysed files, git statistics and
\* hotspots; bulk_upsert_git_stats and bulk_upsert_co_changes commit.
ScanGit(p) ==
    /\ spc[p] = "carried"
    /\ LET l == sloc[p]
           paths == {e.path : e \in l.entries} \cup l.unchanged
           gstats == compute_hotspots(l.entries, paths)
           trend == {[path |-> e.path, scan_id |-> l.scan_id, cx |-> e.cx]
                     : e \in l.entries}
           states == {build_file_state(f) : f \in l.to_scan}
       IN IF (l.pend # {} \/ trend # {}) /\ ~FkOk(db, l.scan_id)
          THEN /\ spc' = [spc EXCEPT ![p] = "failed"]
               /\ UNCHANGED <<db, sloc>>
          ELSE /\ db' = [db EXCEPT
                     !.file_metrics = insert_or_ignore_metrics(
                                          upsert_metrics(db.file_metrics,
                                              {r \in l.pend : r.path \in l.to_scan}),
                                          {r \in l.pend : r.path \notin l.to_scan}),
                     !.trend = upsert_files(db.trend, trend),
                     !.file_state = upsert_by_path(db.file_state, states),
                     !.git_stats = upsert_by_path(db.git_stats, gstats),
                     !.co_change = TRUE]
               /\ sloc' = [sloc EXCEPT ![p] = [l EXCEPT !.pend = {}, !.gstats = gstats]]
               /\ spc' = [spc EXCEPT ![p] = "gitdone"]
    /\ UNCHANGED <<fs, shist>>
    /\ UNCHANGED <<syncVars, helperVars>>

\* cmd_scan: finish_scan, the final commit, and the summary that is printed.
ScanFinish(p) ==
    /\ spc[p] = "gitdone"
    /\ LET l == sloc[p]
           n == Cardinality(l.entries) + Cardinality(l.unchanged)
           mult == [f \in Files |->
                      (IF f \in {e.path : e \in l.entries} THEN 1 ELSE 0)
                    + (IF f \in l.unchanged THEN 1 ELSE 0)]
       IN /\ db' = finish_scan(db, l.scan_id, n)
          /\ sloc' = [sloc EXCEPT ![p] = [l EXCEPT !.out =
                [files_scanned |-> n,
                 files_changed |-> Cardinality(l.to_scan),
                 quality_score |-> compute_quality_score(l.entries, l.gstats, mult)]]]
          /\ shist' = [i \in DOMAIN shist |->
                IF i = l.scan_id
                THEN [shist[i] EXCEPT
                        !.done = TRUE,
                        !.score = compute_quality_score(l.entries, l.gstats, mult)]
                ELSE shist[i]]
    /\ spc' = [spc EXCEPT ![p] = "done"]
    /\ UNCHANGED fs
    /\ UNCHANGED <<syncVars, helperVars>>

\* The process dies (signal, exception) after begin_scan and before the last
\* commit: whatever it had not committed is rolled back.
ScanCrash(p) ==
    /\ spc[p] \in {"begun", "analysed", "carried", "gitdone"}
    /\ spc' = [spc EXCEPT ![p] = "failed"]
    /\ sloc' = [sloc EXCEPT ![p].pend = {}]
    /\ UNCHANGED <<fs, db, shist>>
    /\ UNCHANGED <<syncVars, helperVars>>

\* The process has exited; the next invocation starts afresh.
ScanExit(p) ==
    /\ spc[p] \in {"done", "failed"}
    /\ spc' = [spc EXCEPT ![p] = "idle"]
    /\ sloc' = [sloc EXCEPT ![p] = InitScanLoc]
    /\ UNCHANGED <<fs, db, shist>>
    /\ UNCHANGED <<syncVars, helperVars>>

\* Between invocations the user edits a file (new content, new mtime; a new
\* blob once committed).
Edit(f) ==
    /\ \A p \in ScanProcs : spc[p] = "idle"
    /\ fs[f].ver < MaxVer
    /\ fs[f].mtime < MaxVer
    /\ fs' = [fs EXCEPT ![f].ver = @ + 1, ![f].mtime = @ + 1]
    /\ UNCHANGED <<db, spc, sloc, shist>>
    /\ UNCHANGED <<syncVars, helperVars>>

\* Between invocations the file is rewritten with the same content (touch, a
\* checkout, an editor's save): a new mtime, the same blob at HEAD.
Touch(f) ==
    /\ \A p \in ScanProcs : spc[p] = "idle"
    /\ fs[f].tracked
    /\ fs[f].mtime < MaxVer
    /\ fs' = [fs EXCEPT ![f].mtime = @ + 1]
    /\ UNCHANGED <<db, spc, sloc, shist>>
    /\ UNCHANGED <<syncVars, helperVars>>

ScanStep(p, cap) ==
    \/ ScanBegin(p, cap)
    \/ ScanAnalyze(p)
    \/ ScanCarry(p)
    \/ ScanGit(p)
    \/ ScanFinish(p)
    \/ ScanCrash(p)
    \/ ScanExit(p)

NextScan ==
    \/ \E p \in ScanProcs : ScanStep(p, MaxParScans)
    \/ \E f \in Files : Edit(f)
    \/ \E f \in Files : Touch(f)

\* One scanner process at a time (sequential invocations).
NextScanSeq ==
    \/ ScanStep(1, MaxScans)
    \/ \E f \in Files : Edit(f)
    \/ \E f \in Files : Touch(f)

\* One scanner process at a time, on a working tree nobody changes.
NextScanRepeat == ScanStep(1, MaxScans)

\* Scanner invocations that may overlap.
SpecScan == InitScan /\ [][NextScan]_vars

\* Scanner invocations one after the other.
SpecScanSeq == InitScan /\ [][NextScanSeq]_vars

\* Scanner invocations one after the other on an unchanging working tree.
SpecScanRepeat == InitScan /\ [][NextScanRepeat]_vars

(***************************************************************************)
(* Part II -- issue reconciler                                             *)
(***************************************************************************)
SyncProcs == {1, 2}
FirstIssue == 42              \* number of the one issue on GitHub at the start

\* phases.py _WEAVE_CLOSE_MARKER.  The most recent comment of an issue is one
\* of: "weave"  begins with the marker (build_close_comment),
\*     "quote"  a human comment that contains the marker further in,
\*     "human"  a comment without the marker,
\*     "reopen" the comment posted with gh issue reopen.
MarkerIn(last) == last \in {"weave", "quote"}
MarkerBegins(last) == last = "weave"

\* labels.py STATUS_LABELS / ENSURE_LABELS (names only).
STATUS_LABELS == [active |-> "weave:active", blocked |-> "weave:blocked"]
StatusLabelNames == {"weave:active", "weave:blocked"}
ENSURE_LABELS ==
    {"P1", "P2", "P3", "P4", "task", "bug", "enhancement", "epic", "maintenance",
     "documentation", "weave-synced", "weave:active", "weave:blocked"}

\* labels.py ensure_labels: gh label create for every entry (idempotent).
ensure_labels(labels) == labels \cup ENSURE_LABELS

\* models.py WeaveNode.is_test / no_sync.
is_test(node) == node.typ = "test"
no_sync(node) == node.no_sync

\* labels.py get_labels_for_node; TYPE_LABELS.get(type, "task"), priority 2.
get_labels_for_node(node) ==
    {"weave-synced", "task", "P2"}
        \cup (IF node.status \in DOMAIN STATUS_LABELS
              THEN {STATUS_LABELS[node.status]} ELSE {})

\* data.py get_children: sources of implements edges into the node.
get_children(id) == {e[1] : e \in {x \in edges : x[2] = id}}

\* rendering.py content_hash: distinct contents have distinct hashes.
content_hash(content) == <<"h">> \o content

\* rendering.py render_issue_body: the WEAVE block carries the Weave ID marker
\* of the node and the hash of the rendered content (id, type, and one
\* checkbox per child).
render_issue_body(node, nodes) ==
    LET IsKid(n) == n.id \in get_children(node.id)
        kids == SelectSeq(nodes, IsKid)
        boxes == [j \in 1..Len(kids) |-> IF kids[j].status = "done" THEN "x" ELSE "o"]
    IN [hash |-> content_hash(<<node.id, node.typ>> \o boxes), wid |-> node.id]

always_update_body(body, block) == TRUE

\* body.py should_update_body: no block yet, or the hashes differ.
should_update_body(body, block) == body.hash = <<>> \/ body.hash # block.hash

\* body.py extract_human_content + compose_issue_body: the text above the old
\* block (all of it when there was no block) followed by the new block.
compose_issue_body(body, block) ==
    [human |-> body.human,
     hash |-> block.hash,
     wids |-> (IF body.hash = <<>> THEN body.wids ELSE {}) \cup {block.wid}]

\* SyncStats()
ZeroStats ==
    [created_gh |-> 0, closed_gh |-> 0, reopened_gh |-> 0, updated_gh |-> 0,
     created_wv |-> 0, closed_wv |-> 0, already_synced |-> 0, skipped |-> 0]

Bump(stats, k) == [stats EXCEPT ![k] = @ + 1]

\* issues_by_num / issues_by_title lookups (0: no such key).
HasIssue(issues, num) == \E i \in 1..Len(issues) : issues[i].num = num
IssueOf(issues, num) == issues[CHOOSE i \in 1..Len(issues) : issues[i].num = num]
issues_by_title(issues, title) ==
    LET hit == {i \in 1..Len(issues) : issues[i].title = title}
    IN IF hit = {} THEN 0 ELSE issues[Max(hit)].num

MapIssue(issues, num, f(_)) ==
    [i \in 1..Len(issues) |-> IF issues[i].num = num THEN f(issues[i]) ELSE issues[i]]

MapNode(nodes, id, f(_)) ==
    [i \in 1..Len(nodes) |-> IF nodes[i].id = id THEN f(nodes[i]) ELSE nodes[i]]

\* One entry of the request history.
Req(op, num, by) == [op |-> op, num |-> num, by |-> by, marker |-> FALSE, fetched |-> TRUE]

InitSyncLoc ==
    [dry |-> FALSE, nodes |-> <<>>, issues |-> <<>>, i |-> 0, processed |-> {},
     dupes |-> {}, done_gh |-> {}, stats |-> ZeroStats, handled |-> {},
     failed |-> {},
     snap |-> [nodes |-> <<>>, issues |-> <<>>, log |-> 0]]

\* The graphs, issue lists and repositories the reconciler is started on.
NodeA ==
    {[id |-> "wv-a", text |-> "tA", status |-> st, gh |-> g, typ |-> "task",
      no_sync |-> x[1], source |-> x[2]]
     : st \in {"todo", "active", "done"}, g \in {0, FirstIssue},
       x \in {<<FALSE, "">>, <<TRUE, "">>, <<FALSE, "github">>}}

NodeB ==
    {[id |-> "wv-b", text |-> "tB", status |-> st, gh |-> g, typ |-> "task",
      no_sync |-> FALSE, source |-> ""]
     : st \in {"todo", "active", "done"}, g \in {0, FirstIssue}}

Bodies(a, nodes) ==
    {[human |-> TRUE, hash |-> <<>>, wids |-> {}],
     [human |-> FALSE, hash |-> <<"stale">>, wids |-> {a.id}],
     compose_issue_body([human |-> FALSE, hash |-> <<>>, wids |-> {}],
                        render_issue_body(a, nodes))}

InitSync ==
    /\ \E a \in NodeA, b \in NodeB : graph \in {<<a, b>>, <<b, a>>}
    /\ edges = {}
    /\ \E sl \in {<<"OPEN", "human">>, <<"CLOSED", "human">>,
                  <<"CLOSED", "weave">>, <<"CLOSED", "quote">>},
          body \in Bodies(CHOOSE n \in Range(graph) : n.id = "wv-a", graph),
          labels \in {{}, {"weave-synced", "task", "P2", "weave:active", "bug"},
                      {"weave:test"}} :
          remote = <<[num |-> FirstIssue, title |-> "tA", state |-> sl[1],
                      body |-> body, labels |-> labels, last |-> sl[2]]>>
    /\ repoLabels = ENSURE_LABELS \ {"P4"}
    /\ lock = 0
    /\ pc = [p \in SyncProcs |-> "start"]
    /\ loc = [p \in SyncProcs |-> InitSyncLoc]
    /\ ghlog = <<>>
    \* the scanner is not running
    /\ fs = <<>>
    /\ db = EmptyDb
    /\ spc = <<>>
    /\ sloc = <<>>
    /\ shist = <<>>
    /\ txt = IdleText
    /\ run = IdleRun
    /\ calc = IdleCalc
    /\ prom = IdleProm

\* ---- phase 1 helpers ------------------------------------------------------
\* A context c is the state one node's handling reads and writes: the
\* in-memory lists (nodes, issues), the counters, and the two stores the
\* commands act on (remote: GitHub, graph: the Weave database).

\* c.fail names the commands that exit non-zero when this step issues them
\* (after _run's retries); c.failed collects those that did; c.abort is set
\* when an exception leaves the phase function.
FailOps == {"create", "edit", "label", "close", "reopen", "backfill", "add", "done"}
FailSets == {{}} \cup {{op} : op \in FailOps}

\* A command issued with check=False: a failure is not raised.
Failed(c, op) == IF op \in c.fail THEN c.failed \cup {op} ELSE c.failed

uncaught_CalledProcessError(c, op) ==
    [c EXCEPT !.failed = @ \cup {op}, !.abort = TRUE]

\* A command issued with check=True inside try: the failure is raised by _run
\* and caught by `except subprocess.CalledProcessError`, which logs it.
except_CalledProcessError(c, op) == [c EXCEPT !.failed = @ \cup {op}]

never_claimed(nodes, id, num) == FALSE

\* _backfill_gh_issue, the dedup guard: another node of the in-memory list
\* already has this gh_issue.
claimed_by_other(nodes, id, num) == \E n \in Range(nodes) : n.gh = num /\ n.id # id

no_backfill(c, id, num, dry) == c

\* phases.py _backfill_gh_issue: returns on dry_run; dedup guard over the
\* in-memory nodes; json_set on the database and on the in-memory node.
backfill_gh_issue(c, id, num, dry) ==
    IF dry THEN c
    ELSE IF claimed_by_other(c.nodes, id, num) THEN c
    ELSE [c EXCEPT !.graph = IF "backfill" \in c.fail THEN c.graph
                             ELSE MapNode(c.graph, id, LAMBDA n : [n EXCEPT !.gh = num]),
                   !.nodes = MapNode(c.nodes, id, LAMBDA n : [n EXCEPT !.gh = num]),
                   !.log = Append(c.log, Req("backfill", num, id)),
                   !.failed = Failed(c, "backfill")]

NeverClosedByWeave(rem, num, ok) == FALSE

AlwaysClosedByWeave(rem, num, ok) == TRUE

\* phases.py _was_closed_by_weave: the marker is in the last comment; an
\* API error (ok = FALSE) gives an empty output or an exception: False.
was_closed_by_weave(rem, num, ok) == ok /\ MarkerIn(IssueOf(rem, num).last)

replace_issue_labels(c, num, desired, current, by, dry) ==
    LET to_add == desired \ current
        to_remove == current \ desired
    IN IF dry \/ (to_add = {} /\ to_remove = {}) THEN c
       ELSE [c EXCEPT
               !.remote = IF "label" \in c.fail THEN c.remote
                          ELSE MapIssue(c.remote, num,
                   LAMBDA r : [r EXCEPT !.labels = (@ \cup to_add) \ to_remove]),
               !.log = Append(c.log, Req("label", num, by)),
               !.failed = Failed(c, "label")]

\* labels.py sync_issue_labels against the in-memory label list.
sync_issue_labels(c, num, desired, current, by, dry) ==
    LET to_add == desired \ current
        to_remove == (current \cap StatusLabelNames) \ desired
    IN IF dry \/ (to_add = {} /\ to_remove = {}) THEN c
       ELSE [c EXCEPT
               !.remote = IF "label" \in c.fail THEN c.remote
                          ELSE MapIssue(c.remote, num,
                   LAMBDA r : [r EXCEPT !.labels = (@ \cup to_add) \ to_remove]),
               !.log = Append(c.log, Req("label", num, by)),
               !.failed = Failed(c, "label")]

keep_issue_state(issues, m, st) == issues

\* phases.py `issue.state = "CLOSED"` / `issue.state = "OPEN"`: the in-memory
\* issue follows the close or reopen just issued.
set_issue_state(issues, m, st) ==
    [i \in 1..Len(issues) |->
        IF issues[i].num = m THEN [issues[i] EXCEPT !.state = st] ELSE issues[i]]

never_reimported(node) == FALSE

\* _handle_existing_issue: node.metadata.get("source") == "github".
is_reimported(node) == node.source = "github"

NoDoneGuard(done_gh, m) == FALSE

\* Guard 1 of the reopen branch: some node with this gh_issue is done.
DoneGuard(done_gh, m) == m \in done_gh

\* phases.py _handle_existing_issue
handle_existing_issue(c, k, m, dry, done_gh, ok) ==
    LET node == c.nodes[k]
        issue == IssueOf(c.issues, m)
        about_to_close == node.status = "done" /\ issue.state = "OPEN"
        has_children == get_children(node.id) # {}
        block == render_issue_body(node, c.nodes)
        c1 == IF is_reimported(node) /\ ~has_children THEN c
              ELSE IF ~should_update_body(issue.body, block) THEN c
              ELSE IF dry THEN [c EXCEPT !.stats = Bump(@, "updated_gh")]
              ELSE [c EXCEPT
                      !.stats = Bump(@, "updated_gh"),
                      !.remote = IF "edit" \in c.fail THEN c.remote
                                 ELSE MapIssue(c.remote, m, LAMBDA r :
                          [r EXCEPT !.body = compose_issue_body(issue.body, block)]),
                      !.log = Append(c.log, Req("edit", m, node.id)),
                      !.failed = Failed(c, "edit")]
        c2 == sync_issue_labels(c1, m, get_labels_for_node(node), issue.labels,
                                node.id, dry)
        c3 == IF about_to_close
              THEN IF dry THEN [c2 EXCEPT !.stats = Bump(@, "closed_gh")]
                   ELSE [c2 EXCEPT
                           !.stats = Bump(@, "closed_gh"),
                           !.remote = IF "close" \in c.fail THEN c2.remote
                                      ELSE MapIssue(c2.remote, m, LAMBDA r :
                               [r EXCEPT !.state = "CLOSED", !.last = "weave"]),
                           !.issues = set_issue_state(c2.issues, m, "CLOSED"),
                           !.log = Append(c2.log, Req("close", m, node.id)),
                           !.failed = Failed(c2, "close")]
              ELSE IF node.status # "done" /\ issue.state = "CLOSED"
              THEN IF DoneGuard(done_gh, m)
                   THEN [c2 EXCEPT !.stats = Bump(@, "skipped")]
                   ELSE IF was_closed_by_weave(c2.remote, m, ok)
                   THEN [c2 EXCEPT !.stats = Bump(@, "skipped")]
                   ELSE IF dry THEN [c2 EXCEPT !.stats = Bump(@, "reopened_gh")]
                   ELSE [c2 EXCEPT
                           !.stats = Bump(@, "reopened_gh"),
                           !.remote = IF "reopen" \in c.fail THEN c2.remote
                                      ELSE MapIssue(c2.remote, m, LAMBDA r :
                               [r EXCEPT !.state = "OPEN", !.last = "reopen"]),
                           !.issues = set_issue_state(c2.issues, m, "OPEN"),
                           !.failed = Failed(c2, "reopen"),
                           !.log = Append(c2.log,
                               [Req("reopen", m, node.id) EXCEPT
                                   !.marker = MarkerBegins(IssueOf(c2.remote, m).last),
                                   !.fetched = ok])]
              ELSE [c2 EXCEPT !.stats = Bump(@, "already_synced")]
        c4 == IF node.gh = 0 THEN backfill_gh_issue(c3, node.id, m, dry) ELSE c3
    IN [c4 EXCEPT !.handled = @ \cup {<<node.id, m>>}]

\* phases.py _handle_new_issue
handle_new_issue(c, k, dry) ==
    LET node == c.nodes[k]
        t == issues_by_title(c.issues, node.text)
        new_num == Max({c.remote[i].num : i \in 1..Len(c.remote)}) + 1
        block == render_issue_body(node, c.nodes)
        new_issue == [num |-> new_num, title |-> node.text, state |-> "OPEN",
                      body |-> [human |-> FALSE, hash |-> block.hash,
                                wids |-> {block.wid}],
                      labels |-> get_labels_for_node(node), last |-> "human"]
        c1 == [c EXCEPT !.remote = Append(@, new_issue),
                        !.issues = Append(@, new_issue),
                        !.log = Append(@, Req("create", new_num, node.id))]
        c2 == [backfill_gh_issue(c1, node.id, new_num, FALSE)
                  EXCEPT !.stats = Bump(@, "created_gh")]
    IN IF node.status \notin {"todo", "active", "done"}
       THEN [c EXCEPT !.stats = Bump(@, "skipped")]
       ELSE IF t # 0 /\ "weave-synced" \in IssueOf(c.issues, t).labels
       THEN [backfill_gh_issue(c, node.id, t, dry)
                EXCEPT !.stats = Bump(@, "already_synced")]
       ELSE IF dry THEN [c EXCEPT !.stats = Bump(@, "created_gh")]
       ELSE IF "create" \in c.fail
       THEN except_CalledProcessError(
                [c EXCEPT !.log = Append(@, Req("create", 0, node.id))], "create")
       ELSE IF node.status = "done"
       THEN [c2 EXCEPT
               !.stats = Bump(@, "closed_gh"),
               !.remote = IF "close" \in c.fail THEN c2.remote
                          ELSE MapIssue(c2.remote, new_num, LAMBDA r :
                   [r EXCEPT !.state = "CLOSED", !.last = "weave"]),
               !.issues = set_issue_state(c2.issues, new_num, "CLOSED"),
               !.log = Append(c2.log, Req("close", new_num, node.id)),
               !.failed = Failed(c2, "close")]
       ELSE c2

\* sync_weave_to_github: the match of a node -- metadata first, then the
\* first issue whose body holds the node's Weave ID marker (0: none).
gh_match(node, issues) ==
    IF node.gh # 0 /\ HasIssue(issues, node.gh) THEN node.gh
    ELSE LET hit == {i \in 1..Len(issues) : node.id \in issues[i].body.wids}
         IN IF hit = {} THEN 0 ELSE issues[Min(hit)].num

\* sync_weave_to_github: gh_to_nodes / dupes / done_gh_issues.
dupes_of(nodes) ==
    {g \in {n.gh : n \in Range(nodes)} \ {0} :
        Cardinality({n \in Range(nodes) : n.gh = g}) > 1}

done_gh_issues(nodes) == {n.gh : n \in {x \in Range(nodes) : x.gh # 0 /\ x.status = "done"}}

NoDupSkip(m, processed, dupes) == FALSE

\* The duplicate skip: this issue was processed and is a duplicate mapping.
DupSkip(m, processed, dupes) == m \in processed /\ m \in dupes

\* sync_weave_to_github: the body of the loop for the k-th node.
sync_node(c, k, dry, dupes, done_gh, ok) ==
    LET node == c.nodes[k]
        m == gh_match(node, c.issues)
    IN IF is_test(node) \/ no_sync(node)
       THEN [c EXCEPT !.stats = Bump(@, "skipped")]
       ELSE IF m = 0 THEN handle_new_issue(c, k, dry)
       ELSE IF DupSkip(m, c.processed, dupes)
       THEN [c EXCEPT !.stats = Bump(@, "skipped")]
       ELSE handle_existing_issue([c EXCEPT !.processed = @ \cup {m}],
                                  k, m, dry, done_gh, ok)

\* ---- phases 2 and 3 -------------------------------------------------------
NewIds == <<"wv-c", "wv-d">>     \* ids wv add hands out, in order

never_tracked(num, tracked) == FALSE

\* sync_github_to_weave: `issue.number in tracked_gh_nums`.
is_tracked(num, tracked) == num \in tracked

\* sync_github_to_weave: the loop body for the j-th issue of the list.
\* tracked / ids are computed once, before the loop.
import_issue(c, j, dry, tracked, ids) ==
    LET issue == c.issues[j]
        new_id == NewIds[Len(c.graph) - 1]
        new_node == [id |-> new_id, text |-> issue.title, status |-> "todo",
                     gh |-> issue.num, typ |-> "task", no_sync |-> FALSE,
                     source |-> "github"]
    IN IF "weave:test" \in issue.labels
       THEN [c EXCEPT !.stats = Bump(@, "skipped")]
       ELSE IF is_tracked(issue.num, tracked) THEN c
       ELSE IF issue.body.wids \cap ids # {} THEN c
       ELSE IF issue.state # "OPEN" THEN [c EXCEPT !.stats = Bump(@, "skipped")]
       ELSE IF dry THEN [c EXCEPT !.stats = Bump(@, "created_wv")]
       ELSE IF "add" \in c.fail THEN except_CalledProcessError(c, "add")
       ELSE [c EXCEPT !.stats = Bump(@, "created_wv"),
                      !.graph = Append(@, new_node),
                      !.nodes = Append(@, new_node),
                      !.log = Append(@, Req("add", issue.num, new_id))]

RECURSIVE sync_github_to_weave_from(_, _, _, _, _)
sync_github_to_weave_from(c, j, dry, tracked, ids) ==
    IF j > Len(c.issues) \/ c.abort THEN c
    ELSE sync_github_to_weave_from(import_issue(c, j, dry, tracked, ids),
                                   j + 1, dry, tracked, ids)

\* phases.py sync_github_to_weave
sync_github_to_weave(c, dry) ==
    sync_github_to_weave_from(c, 1, dry,
        {n.gh : n \in Range(c.nodes)} \ {0}, {n.id : n \in Range(c.nodes)})

close_node_any_state(c, k, dry) ==
    LET node == c.nodes[k]
    IN IF node.gh # 0 /\ node.status # "done" /\ HasIssue(c.issues, node.gh)
       THEN IF dry THEN [c EXCEPT !.stats = Bump(@, "closed_wv")]
            ELSE [c EXCEPT !.stats = Bump(@, "closed_wv"),
                           !.graph = IF "done" \in c.fail THEN c.graph
                                     ELSE MapNode(@, node.id,
                               LAMBDA n : [n EXCEPT !.status = "done"]),
                           !.log = Append(@, Req("done", node.gh, node.id)),
                           !.failed = Failed(c, "done")]
       ELSE c

\* sync_closed_to_weave: the loop body for the k-th node.
close_node(c, k, dry) ==
    LET node == c.nodes[k]
    IN IF node.gh # 0 /\ node.status # "done" /\ HasIssue(c.issues, node.gh)
          /\ IssueOf(c.issues, node.gh).state = "CLOSED"
       THEN IF dry THEN [c EXCEPT !.stats = Bump(@, "closed_wv")]
            ELSE [c EXCEPT !.stats = Bump(@, "closed_wv"),
                           !.graph = IF "done" \in c.fail THEN c.graph
                                     ELSE MapNode(@, node.id,
                               LAMBDA n : [n EXCEPT !.status = "done"]),
                           !.log = Append(@, Req("done", node.gh, node.id)),
                           !.failed = Failed(c, "done")]
       ELSE c

RECURSIVE sync_closed_to_weave_from(_, _, _)
sync_closed_to_weave_from(c, k, dry) ==
    IF k > Len(c.nodes) \/ c.abort THEN c
    ELSE sync_closed_to_weave_from(close_node(c, k, dry), k + 1, dry)

\* phases.py sync_closed_to_weave
sync_closed_to_weave(c, dry) == sync_closed_to_weave_from(c, 1, dry)

\* ---- _run_full_sync, one action per step -----------------------------------
CtxOf(p) ==
    [nodes |-> loc[p].nodes, issues |-> loc[p].issues, stats |-> loc[p].stats,
     processed |-> loc[p].processed, handled |-> loc[p].handled,
     remote |-> remote, graph |-> graph, log |-> ghlog,
     fail |-> {}, failed |-> loc[p].failed, abort |-> FALSE]

\* The same, for a step in which the commands named in F exit non-zero.
CtxFailing(p, F) == [CtxOf(p) EXCEPT !.fail = F]

\* What a step leaves behind: the context written back.
Store(p, c, l) ==
    /\ loc' = [loc EXCEPT ![p] =
            [l EXCEPT !.nodes = c.nodes, !.issues = c.issues, !.stats = c.stats,
                      !.processed = c.processed, !.handled = c.handled,
                      !.failed = c.failed]]
    /\ remote' = c.remote
    /\ graph' = c.graph
    /\ ghlog' = c.log

LockAlwaysFree == TRUE

\* fcntl.flock(fh, LOCK_EX | LOCK_NB) succeeds iff nobody holds the lock.
LockFree == lock = 0

\* main -> _run_full_sync -> _acquire_sync_lock, lock obtained.
AcquireSyncLock(p) ==
    /\ pc[p] = "start"
    /\ LockFree
    /\ lock' = p
    /\ pc' = [pc EXCEPT ![p] = "locked"]
    /\ \E dry \in BOOLEAN : loc' = [loc EXCEPT ![p].dry = dry]
    /\ UNCHANGED <<graph, edges, remote, repoLabels, ghlog>>
    /\ UNCHANGED <<scanVars, helperVars>>

\* _acquire_sync_lock: OSError, log.error, sys.exit(1).
LockBusy(p) ==
    /\ pc[p] = "start"
    /\ ~LockFree
    /\ pc' = [pc EXCEPT ![p] = "lockfail"]
    /\ UNCHANGED <<graph, edges, remote, repoLabels, lock, loc, ghlog>>
    /\ UNCHANGED <<scanVars, helperVars>>

\* _run_full_sync: get_repo, ensure_labels, get_weave_nodes,
\* get_github_issues, and the set-up of phase 1.
Setup(p) ==
    /\ pc[p] = "locked"
    /\ repoLabels' = ensure_labels(repoLabels)
    /\ loc' = [loc EXCEPT ![p] =
            [@ EXCEPT !.nodes = graph, !.issues = remote, !.i = 1,
                      !.dupes = dupes_of(graph),
                      !.done_gh = done_gh_issues(graph),
                      !.snap = [nodes |-> graph, issues |-> remote,
                                log |-> Len(ghlog)]]]
    /\ pc' = [pc EXCEPT ![p] = "p1"]
    /\ UNCHANGED <<graph, edges, remote, lock, ghlog>>
    /\ UNCHANGED <<scanVars, helperVars>>

LoopOverAfterFirst(i, n) == i > 1

\* sync_weave_to_github: `for node in nodes` has run out of nodes; the
\* function returns the issue list and phase 2 starts.
LoopOver(i, n) == i > n

\* sync_weave_to_github: one iteration of the loop over the nodes.
Phase1Node(p) ==
    /\ pc[p] = "p1"
    /\ ~LoopOver(loc[p].i, Len(loc[p].nodes))
    /\ \E ok \in BOOLEAN :
          LET l == loc[p]
              c == sync_node(CtxOf(p), l.i, l.dry, l.dupes, l.done_gh, ok)
          IN Store(p, c, [l EXCEPT !.i = @ + 1])
    /\ UNCHANGED <<edges, repoLabels, lock, pc>>
    /\ UNCHANGED <<scanVars, helperVars>>

\* get_weave_nodes again, then sync_github_to_weave.
Phase2(p) ==
    /\ pc[p] = "p1"
    /\ LoopOver(loc[p].i, Len(loc[p].nodes))
    /\ LET l == loc[p]
           c == sync_github_to_weave([CtxOf(p) EXCEPT !.nodes = graph], l.dry)
       IN Store(p, c, l)
    /\ pc' = [pc EXCEPT ![p] = "p3"]
    /\ UNCHANGED <<edges, repoLabels, lock>>
    /\ UNCHANGED <<scanVars, helperVars>>

\* get_weave_nodes again, then sync_closed_to_weave (and wv sync, which
\* only writes the graph out to its state files).
Phase3(p) ==
    /\ pc[p] = "p3"
    /\ LET l == loc[p]
           c == sync_closed_to_weave([CtxOf(p) EXCEPT !.nodes = graph], l.dry)
       IN Store(p, c, l)
    /\ pc' = [pc EXCEPT ![p] = "done"]
    /\ UNCHANGED <<edges, repoLabels, lock>>
    /\ UNCHANGED <<scanVars, helperVars>>

\* The process ends; the kernel drops its flock.
SyncExit(p) ==
    /\ pc[p] \in {"done", "lockfail", "aborted"}
    /\ pc' = [pc EXCEPT ![p] = "exited"]
    /\ lock' = IF lock = p THEN 0 ELSE lock
    /\ UNCHANGED <<graph, edges, remote, repoLabels, loc, ghlog>>
    /\ UNCHANGED <<scanVars, helperVars>>

SyncStep(p) ==
    \/ AcquireSyncLock(p)
    \/ LockBusy(p)
    \/ Setup(p)
    \/ Phase1Node(p)
    \/ Phase2(p)
    \/ Phase3(p)
    \/ SyncExit(p)

NextSync == \E p \in SyncProcs : SyncStep(p)

\* Full-sync invocations, each run once, in any interleaving.
SpecSync == InitSync /\ [][NextSync]_vars

\* ---- one full sync whose commands may fail ---------------------------------
\* The graphs and issues of InitSync, without the no_sync and imported
\* variants of wv-a and without the weave:test label.
InitSyncFailing ==
    /\ \E a \in {n \in NodeA : ~n.no_sync /\ n.source = ""}, b \in NodeB :
          graph \in {<<a, b>>, <<b, a>>}
    /\ edges = {}
    /\ \E sl \in {<<"OPEN", "human">>, <<"CLOSED", "human">>,
                  <<"CLOSED", "weave">>, <<"CLOSED", "quote">>},
          body \in Bodies(CHOOSE n \in Range(graph) : n.id = "wv-a", graph),
          labels \in {{}, {"weave-synced", "task", "P2", "weave:active", "bug"}} :
          remote = <<[num |-> FirstIssue, title |-> "tA", state |-> sl[1],
                      body |-> body, labels |-> labels, last |-> sl[2]]>>
    /\ repoLabels = ENSURE_LABELS \ {"P4"}
    /\ lock = 0
    /\ pc = [p \in SyncProcs |-> "start"]
    /\ loc = [p \in SyncProcs |-> InitSyncLoc]
    /\ ghlog = <<>>
    /\ fs = <<>>
    /\ db = EmptyDb
    /\ spc = <<>>
    /\ sloc = <<>>
    /\ shist = <<>>
    /\ txt = IdleText
    /\ run = IdleRun
    /\ calc = IdleCalc
    /\ prom = IdleProm

\* After a step of a phase: on an exception that left the phase function the
\* run is over (main has no handler), else it goes on to `next`.
AfterStep(p, c, next) ==
    pc' = [pc EXCEPT ![p] = IF c.abort THEN "aborted" ELSE next]

\* sync_weave_to_github: one iteration of the loop, some command failing.
Phase1NodeFailing(p) ==
    /\ pc[p] = "p1"
    /\ ~LoopOver(loc[p].i, Len(loc[p].nodes))
    /\ \E ok \in BOOLEAN, F \in FailSets :
          LET l == loc[p]
              c == sync_node(CtxFailing(p, F), l.i, l.dry, l.dupes, l.done_gh, ok)
          IN Store(p, c, [l EXCEPT !.i = @ + 1]) /\ AfterStep(p, c, "p1")
    /\ UNCHANGED <<edges, repoLabels, lock>>
    /\ UNCHANGED <<scanVars, helperVars>>

\* sync_github_to_weave, some command failing.
Phase2Failing(p) ==
    /\ pc[p] = "p1"
    /\ LoopOver(loc[p].i, Len(loc[p].nodes))
    /\ \E F \in FailSets :
          LET l == loc[p]
              c == sync_github_to_weave([CtxFailing(p, F) EXCEPT !.nodes = graph], l.dry)
          IN Store(p, c, l) /\ AfterStep(p, c, "p3")
    /\ UNCHANGED <<edges, repoLabels, lock>>
    /\ UNCHANGED <<scanVars, helperVars>>

\* sync_closed_to_weave, some command failing.
Phase3Failing(p) ==
    /\ pc[p] = "p3"
    /\ \E F \in FailSets :
          LET l == loc[p]
              c == sync_closed_to_weave([CtxFailing(p, F) EXCEPT !.nodes = graph], l.dry)
          IN Store(p, c, l) /\ AfterStep(p, c, "done")
    /\ UNCHANGED <<edges, repoLabels, lock>>
    /\ UNCHANGED <<scanVars, helperVars>>

SyncStepFailing(p) ==
    \/ AcquireSyncLock(p)
    \/ Setup(p)
    \/ Phase1NodeFailing(p)
    \/ Phase2Failing(p)
    \/ Phase3Failing(p)
    \/ SyncExit(p)

NextSyncFailing == SyncStepFailing(1)

\* One full-sync invocation in which any command may fail.
SpecSyncFailing == InitSyncFailing /\ [][NextSyncFailing]_vars

(***************************************************************************)
(* Part III -- body texts and command wrappers                             *)
(***************************************************************************)
MaxText == 3        \* longest issue body, in tokens
MaxWrites == 2      \* body rewrites followed for one issue

\* An issue body is a sequence of tokens: "t" a printing character, "n" a
\* newline (whitespace), "M1"/"M2" a whole machine block
\* <!-- WEAVE:BEGIN hash=.. --> .. <!-- WEAVE:END --> with that hash.
Blocks == {"M1", "M2"}
WhitespaceTok == {"n"}
Tok == {"t"} \cup WhitespaceTok \cup Blocks
Texts == UNION {[1..n -> Tok] : n \in 0..MaxText}

\* body.py _WEAVE_BLOCK_RE.search: position of the first block, 0 for no match.
weave_block_search(s) ==
    IF \E i \in 1..Len(s) : s[i] \in Blocks
    THEN Min({i \in 1..Len(s) : s[i] \in Blocks})
    ELSE 0

\* body.py extract_weave_block, the hash group ("None" for no block).
extract_weave_block(s) ==
    IF weave_block_search(s) = 0 THEN "None" ELSE s[weave_block_search(s)]

\* str.rstrip / str.strip on token sequences.
RECURSIVE rstrip(_)
rstrip(s) ==
    IF s = <<>> THEN <<>>
    ELSE IF s[Len(s)] \in WhitespaceTok THEN rstrip(SubSeq(s, 1, Len(s) - 1))
    ELSE s

RECURSIVE lstrip(_)
lstrip(s) ==
    IF s = <<>> THEN <<>>
    ELSE IF s[1] \in WhitespaceTok THEN lstrip(Tail(s))
    ELSE s

strip(s) == lstrip(rstrip(s))

extract_human_content_raw(s) ==
    LET m == weave_block_search(s)
    IN IF m > 0 THEN SubSeq(s, 1, m - 1)
       ELSE IF strip(s) # <<>> THEN s
       ELSE <<>>

\* body.py extract_human_content
extract_human_content(s) ==
    LET m == weave_block_search(s)
    IN IF m > 0 THEN rstrip(SubSeq(s, 1, m - 1))
       ELSE IF strip(s) # <<>> THEN rstrip(s)
       ELSE <<>>

\* body.py compose_issue_body on texts: human content, a blank line, the block.
compose_body_text(human_content, weave_block) ==
    IF human_content # <<>> THEN human_content \o <<"n", "n">> \o <<weave_block>>
    ELSE <<weave_block>>

\* body.py should_update_body on texts.
should_update_text(existing_body, new_weave_block) ==
    LET existing_hash == extract_weave_block(existing_body)
        new_hash == extract_weave_block(<<new_weave_block>>)
    IN IF existing_hash = "None" THEN TRUE ELSE existing_hash # new_hash

InitBody ==
    /\ \E s \in Texts : txt = [orig |-> s, body |-> s, writes |-> 0, block |-> "",
                               wrote |-> FALSE]
    /\ run = IdleRun
    /\ fs = <<>>
    /\ db = EmptyDb
    /\ spc = <<>>
    /\ sloc = <<>>
    /\ shist = <<>>
    /\ graph = <<>>
    /\ edges = {}
    /\ remote = <<>>
    /\ repoLabels = {}
    /\ lock = 0
    /\ pc = <<>>
    /\ loc = <<>>
    /\ ghlog = <<>>
    /\ calc = IdleCalc
    /\ prom = IdleProm

\* phases.py _handle_existing_issue, the body update of one reconciliation:
\* the block rendered for the node is new_weave_block.
RewriteBody(new_weave_block) ==
    /\ txt.writes < MaxWrites
    /\ IF should_update_text(txt.body, new_weave_block)
       THEN txt' = [txt EXCEPT
                      !.body = compose_body_text(extract_human_content(txt.body),
                                                 new_weave_block),
                      !.writes = @ + 1,
                      !.block = new_weave_block,
                      !.wrote = TRUE]
       ELSE txt' = [txt EXCEPT !.block = new_weave_block, !.wrote = FALSE]
    /\ UNCHANGED <<run, scanVars, syncVars, calc, prom>>

NextBody == \E b \in Blocks : RewriteBody(b)

SpecBody == InitBody /\ [][NextBody]_vars

\* ---- command wrappers ----------------------------------------------------
MAX_RETRIES == 3
BASE_DELAY == 2
GIT_TIMEOUT == 30
NoTimeout == NULL

\* What the child process does: exit with a code and an error text (a
\* sequence of words), or never exit.
Stall == [rc |-> NULL, stderr |-> <<"stall">>]
Stderrs ==
    {<<"API", "rate", "limit", "exceeded">>,
     <<"secondary", "rate", "limit", "reached">>,
     <<"abuse", "detection", "triggered">>,
     <<"HTTP", "403:", "Resource", "not", "accessible">>,
     <<"HTTP", "429">>,
     <<"not", "found">>}
Completed ==
    {[rc |-> 0, stderr |-> <<>>]} \cup {[rc |-> 1, stderr |-> e] : e \in Stderrs}
Behaviours == Completed \cup {Stall}

\* str.lower, word by word.
LowerWord(w) ==
    CASE w = "API" -> "api"
      [] w = "HTTP" -> "http"
      [] w = "Resource" -> "resource"
      [] OTHER -> w
lower(s) == [i \in 1..Len(s) |-> LowerWord(s[i])]

\* `pat in s` on word sequences.
Contains(s, pat) ==
    \E i \in 0..(Len(s) - Len(pat)) : SubSeq(s, i + 1, i + Len(pat)) = pat

RATE_LIMIT_PATTERNS ==
    {<<"rate", "limit">>, <<"api", "rate", "limit">>,
     <<"secondary", "rate", "limit">>, <<"abuse", "detection">>}

is_rate_limited_or_status(result) ==
    /\ result.rc # 0
    /\ \E pat \in RATE_LIMIT_PATTERNS \cup {<<"403:">>, <<"429">>} :
          Contains(lower(result.stderr), pat)

\* cli.py _is_rate_limited
is_rate_limited(result) ==
    /\ result.rc # 0
    /\ \E pat \in RATE_LIMIT_PATTERNS : Contains(lower(result.stderr), pat)

linear_delay(attempt) == BASE_DELAY * (attempt + 1)

\* cli.py _run, the delay before the retry that follows attempt
retry_delay(attempt) == BASE_DELAY * (2 ^ attempt)

\* subprocess.run(..., timeout=t) of a child that behaves as b: the result,
\* "TimeoutExpired" raised, or no return at all.
subprocess_run(timeout, b) ==
    IF b # Stall THEN b
    ELSE IF timeout = NoTimeout THEN [rc |-> NULL, stderr |-> <<"hang">>]
    ELSE [rc |-> NULL, stderr |-> <<"TimeoutExpired">>]

Invocation(timeout, b) == [timeout |-> timeout, out |-> subprocess_run(timeout, b)]

InitCmd ==
    /\ \E f \in {"_run", "_git", "_wv_cmd"}, c \in BOOLEAN :
          /\ f # "_run" => ~c
          /\ run = [fn |-> f, check |-> c, attempt |-> 0, calls |-> <<>>,
                    slept |-> <<>>, pc |-> "call"]
    /\ txt = IdleText
    /\ fs = <<>>
    /\ db = EmptyDb
    /\ spc = <<>>
    /\ sloc = <<>>
    /\ shist = <<>>
    /\ graph = <<>>
    /\ edges = {}
    /\ remote = <<>>
    /\ repoLabels = {}
    /\ lock = 0
    /\ pc = <<>>
    /\ loc = <<>>
    /\ ghlog = <<>>
    /\ calc = IdleCalc
    /\ prom = IdleProm

\* cli.py _run: one pass of the retry loop (the attempt, and the sleep or the
\* exit that follows it).
RunAttempt(b) ==
    /\ run.fn = "_run" /\ run.pc = "call"
    /\ LET inv == Invocation(NoTimeout, b)
           result == inv.out
           r1 == [run EXCEPT !.calls = Append(@, inv)]
       IN run' =
            IF result.stderr = <<"hang">> THEN [r1 EXCEPT !.pc = "hung"]
            ELSE IF result.rc = 0 THEN [r1 EXCEPT !.pc = "returned"]
            ELSE IF is_rate_limited(result) /\ run.attempt < MAX_RETRIES
            THEN [r1 EXCEPT !.slept = Append(@, retry_delay(run.attempt)),
                            !.attempt = @ + 1]
            ELSE IF run.check THEN [r1 EXCEPT !.pc = "raised"]
            ELSE [r1 EXCEPT !.pc = "returned"]
    /\ UNCHANGED <<txt, scanVars, syncVars, calc, prom>>

\* git_metrics.py _git: timeout=30, every failure turned into "".
GitCall(b) ==
    /\ run.fn = "_git" /\ run.pc = "call"
    /\ run' = [run EXCEPT !.calls = Append(@, Invocation(GIT_TIMEOUT, b)),
                          !.pc = "returned"]
    /\ UNCHANGED <<txt, scanVars, syncVars, calc, prom>>

\* weave_quality/__main__.py _wv_cmd: no timeout.
WvCmd(b) ==
    /\ run.fn = "_wv_cmd" /\ run.pc = "call"
    /\ LET inv == Invocation(NoTimeout, b)
       IN run' = [run EXCEPT !.calls = Append(@, inv),
                             !.pc = IF inv.out.stderr = <<"hang">> THEN "hung"
                                    ELSE "returned"]
    /\ UNCHANGED <<txt, scanVars, syncVars, calc, prom>>

NextCmd == \E b \in Behaviours : RunAttempt(b) \/ GitCall(b) \/ WvCmd(b)

SpecCmd == InitCmd /\ [][NextCmd]_vars

(***************************************************************************)
(* Part IV -- pure computations of hotspots.py on their own                *)
(***************************************************************************)

\* ---- bounds -------------------------------------------------------------
MaxHeavy == 12         \* files that are both critical and hot in a project
MaxAdds == 2           \* files added to a project, one after the other

\* ---- compute_quality_score over a project that grows by one file ---------
\* One FileEntry and one GitStats per file.  Complexities on each side of
\* CC_WARNING and CC_CRITICAL, hotspots on each side of HOTSPOT_THRESHOLD.
ScoreCx == {CC_WARNING - 1, CC_WARNING, CC_CRITICAL - 1, CC_CRITICAL}
ScoreHot == {0, HOTSPOT_THRESHOLD, HOTSPOT_THRESHOLD + 1, HotScale}

FileOf(path, cx, hotspot) == [path |-> path, cx |-> cx, hotspot |-> hotspot]
EntriesOf(files) == {[path |-> f.path, cx |-> f.cx] : f \in files}
StatsOf(files) == {[path |-> f.path, hotspot |-> f.hotspot] : f \in files}

\* compute_quality_score(entries, stats) with each path once in stats.
quality_score_of(files) ==
    compute_quality_score(EntriesOf(files), StatsOf(files),
                          [p \in {f.path : f \in files} |-> 1])

InitScore ==
    /\ \E n \in 0..MaxHeavy, light \in SUBSET {FileOf(0, c, h) : c \in ScoreCx, h \in ScoreHot} :
          /\ Cardinality(light) <= 1
          /\ LET files == {FileOf(i, CC_CRITICAL + 20, HotScale) : i \in 1..n} \cup light
             IN calc = [op |-> "score", files |-> files, adds |-> 0,
                        added |-> FileOf(NULL, NULL, NULL), prev |-> NULL,
                        score |-> quality_score_of(files)]
    /\ txt = IdleText
    /\ run = IdleRun
    /\ fs = <<>>
    /\ db = EmptyDb
    /\ spc = <<>>
    /\ sloc = <<>>
    /\ shist = <<>>
    /\ graph = <<>>
    /\ edges = {}
    /\ remote = <<>>
    /\ repoLabels = {}
    /\ lock = 0
    /\ pc = <<>>
    /\ loc = <<>>
    /\ ghlog = <<>>
    /\ prom = IdleProm

\* The project gains one file whose hotspot is above the threshold; the
\* entries and the statistics of the other files stay as they were.
AddHotFile(cx, hotspot) ==
    /\ calc.op = "score"
    /\ calc.adds < MaxAdds
    /\ hotspot > HOTSPOT_THRESHOLD
    /\ LET f == FileOf(MaxHeavy + 1 + calc.adds, cx, hotspot)
           files == calc.files \cup {f}
       IN calc' = [calc EXCEPT !.files = files, !.adds = @ + 1, !.added = f,
                               !.prev = calc.score,
                               !.score = quality_score_of(files)]
    /\ UNCHANGED <<txt, run, scanVars, syncVars, prom>>

NextScore == \E cx \in ScoreCx, hotspot \in ScoreHot : AddHotFile(cx, hotspot)

SpecScore == InitScore /\ [][NextScore]_vars

\* ---- compute_hotspots over two files with both metrics -------------------
MaxFuseVal == 3        \* largest complexity and largest churn drawn

FusePaths == {"a.py", "b.py"}

\* compute_hotspots(entries, stats): entries and stats as path -> value; the
\* GitStats of the common paths get their hotspot, the other GitStats keep 0.
fuse(cx, churn) ==
    LET common == DOMAIN cx \cap DOMAIN churn
    IN [f \in DOMAIN churn |->
           IF f \in common
           THEN HotspotOf(f, common, [g \in common |-> cx[g]], [g \in common |-> churn[g]])
           ELSE 0]

\* Two files with a FileEntry and a GitStats each; a third file may have a
\* FileEntry only (no history), which keeps it out of the fused set.
InitFuse ==
    /\ \E cx \in [FusePaths -> 1..MaxFuseVal], churn \in [FusePaths -> 0..MaxFuseVal],
          extra \in BOOLEAN :
          calc = [op |-> "fuse",
                  cx |-> IF extra THEN [f \in FusePaths \cup {"c.py"} |->
                                           IF f \in FusePaths THEN cx[f] ELSE MaxFuseVal + 1]
                         ELSE cx,
                  churn |-> churn,
                  hotspot |-> [f \in FusePaths |-> 0],
                  fused |-> FALSE]
    /\ txt = IdleText
    /\ run = IdleRun
    /\ fs = <<>>
    /\ db = EmptyDb
    /\ spc = <<>>
    /\ sloc = <<>>
    /\ shist = <<>>
    /\ graph = <<>>
    /\ edges = {}
    /\ remote = <<>>
    /\ repoLabels = {}
    /\ lock = 0
    /\ pc = <<>>
    /\ loc = <<>>
    /\ ghlog = <<>>
    /\ prom = IdleProm

Fuse ==
    /\ calc.op = "fuse"
    /\ ~calc.fused
    /\ calc' = [calc EXCEPT !.hotspot = fuse(calc.cx, calc.churn), !.fused = TRUE]
    /\ UNCHANGED <<txt, run, scanVars, syncVars, prom>>

NextFuse == Fuse

SpecFuse == InitFuse /\ [][NextFuse]_vars

(***************************************************************************)
(* Part V -- promote (weave_quality cmd_promote) after a scan               *)
(***************************************************************************)

\* ---- bounds -------------------------------------------------------------
MaxPromotes == 3       \* invocations of promote

\* _finding_id: sha256(path + ":" + metric)[:12], one key per path and metric.
finding_id(path) == IF path = "a.py" THEN "sha256(a.py:hotspot)" ELSE "sha256(b.sh:hotspot)"

\* The metadata column as wv list --json prints it: a JSON text, written as
\* what json.loads makes of it.  InvalidJson is a text json.loads rejects.
InvalidJson == [valid |-> FALSE]
NoFinding == [valid |-> TRUE, quality_finding_id |-> ""]
FindingMeta(fid, hotspot) ==
    [valid |-> TRUE, quality_finding_id |-> fid, hotspot |-> hotspot,
     type |-> "quality-finding"]

ParentId == <<"wv", 1>>

\* f"Hotspot: {path} (CC={cc:.0f}, churn={churn})"
HotspotText(path, cc, churn) == <<"Hotspot:", path, cc, churn>>

\* The command of wv that may exit non-zero in one invocation (at most one).
PromoteFailSets == {{}, {"list"}, {"add"}, {"link"}}

\* cmd_promote, the scan of wv list --json --all for quality_finding_id: one
\* try block around the whole loop, so the first metadata text that does not
\* parse ends the loop and what was collected so far is kept.  A later node
\* with the same finding id replaces the earlier one in the dict.
RECURSIVE existing_findings_from(_, _, _)
existing_findings_from(nodes, i, found) ==
    IF i > Len(nodes) THEN found
    ELSE IF ~nodes[i].meta.valid THEN found
    ELSE LET fid == nodes[i].meta.quality_finding_id
         IN existing_findings_from(nodes, i + 1,
                IF fid # "" THEN [x \in DOMAIN found \cup {fid} |->
                                     IF x = fid THEN nodes[i].id ELSE found[x]]
                ELSE found)

existing_findings(nodes, F) ==
    IF "list" \in F THEN <<>> ELSE existing_findings_from(nodes, 1, <<>>)

\* cmd_promote, the loop over the ranked hotspots from position i on.
\* st = [nodes, refs, promoted, updated, skipped].
RECURSIVE promote_from(_, _, _, _, _, _, _, _)
promote_from(ranked, i, existing, entries, upsert, dry_run, F, st) ==
    IF i > Len(ranked) THEN st
    ELSE
    LET gs == ranked[i]
        fid == finding_id(gs.path)
        cc == IF \E e \in entries : e.path = gs.path
              THEN (CHOOSE e \in entries : e.path = gs.path).cx ELSE 0
        text == HotspotText(gs.path, cc, gs.churn)
        next(s) == promote_from(ranked, i + 1, existing, entries, upsert, dry_run, F, s)
    IN IF fid \in DOMAIN existing
       THEN IF ~upsert THEN next([st EXCEPT !.skipped = @ + 1])
            ELSE LET upd == [node_id |-> existing[fid], text |-> text, finding_id |-> fid]
                 IN IF dry_run THEN next([st EXCEPT !.updated = Append(@, upd)])
                    ELSE next([st EXCEPT
                            !.nodes = [k \in DOMAIN @ |->
                                IF @[k].id = existing[fid]
                                THEN [@[k] EXCEPT !.text = text,
                                                  !.meta = FindingMeta(fid, gs.hotspot)]
                                ELSE @[k]],
                            !.updated = Append(@, upd)])
       ELSE IF dry_run
            THEN next([st EXCEPT !.promoted =
                          Append(@, [node_id |-> <<>>, text |-> text, finding_id |-> fid])])
       ELSE IF "add" \in F THEN next(st)
       ELSE LET node_id == <<"wv", Len(st.nodes) + 1>>
            IN next([st EXCEPT
                    !.nodes = Append(@, [id |-> node_id, text |-> text,
                                         meta |-> FindingMeta(fid, gs.hotspot)]),
                    !.refs = IF "link" \in F THEN @ ELSE @ \cup {<<node_id, ParentId>>},
                    !.promoted = Append(@, [node_id |-> node_id, text |-> text,
                                            finding_id |-> fid])])

\* One scan of the repository may run (or crash); the graph holds the parent
\* node P and, in some runs, an older node whose metadata is not JSON.
InitPromote ==
    /\ fs \in {g \in [Files -> [ver : {1}, mtime : {1}, tracked : BOOLEAN]] :
                   g["a.py"].tracked}
    /\ db = EmptyDb
    /\ spc = [p \in ScanProcs |-> "idle"]
    /\ sloc = [p \in ScanProcs |-> InitScanLoc]
    /\ shist = <<>>
    /\ \E old \in {<<>>, <<[id |-> <<"wv", 2>>, text |-> <<"note">>, meta |-> InvalidJson]>>,
                   <<[id |-> <<"wv", 2>>, text |-> <<"note">>, meta |-> NoFinding]>>} :
          prom = [nodes |-> <<[id |-> ParentId, text |-> <<"parent">>, meta |-> NoFinding]>> \o old,
                  refs |-> {}, runs |-> 0, last |-> [ran |-> FALSE]]
    /\ graph = <<>>
    /\ edges = {}
    /\ remote = <<>>
    /\ repoLabels = {}
    /\ lock = 0
    /\ pc = <<>>
    /\ loc = <<>>
    /\ ghlog = <<>>
    /\ txt = IdleText
    /\ run = IdleRun
    /\ calc = IdleCalc

\* cmd_promote --parent P --top top_n [--upsert] [--dry-run] --json, with the
\* commands of wv in F exiting non-zero.
Promote(top_n, upsert, dry_run, F) ==
    /\ prom.runs < MaxPromotes
    /\ \A p \in ScanProcs : spc[p] \in {"idle", "done", "failed"}
    /\ LET ranked == top_hotspots(db, top_n)
           entries == get_file_entries(db, latest_scan(db))
           existing == existing_findings(prom.nodes, F)
           st == promote_from(ranked, 1, existing, entries, upsert, dry_run, F,
                              [nodes |-> prom.nodes, refs |-> prom.refs,
                               promoted |-> <<>>, updated |-> <<>>, skipped |-> 0])
       IN IF latest_scan(db) = 0
          THEN prom' = [prom EXCEPT !.runs = @ + 1,
                            !.last = [ran |-> TRUE, rc |-> 1, json |-> FALSE,
                                      upsert |-> upsert, dry_run |-> dry_run,
                                      ranked |-> <<>>, promoted |-> <<>>,
                                      updated |-> <<>>, skipped |-> 0]]
          ELSE IF ranked = <<>>
          THEN prom' = [prom EXCEPT !.runs = @ + 1,
                            !.last = [ran |-> TRUE, rc |-> 0, json |-> FALSE,
                                      upsert |-> upsert, dry_run |-> dry_run,
                                      ranked |-> <<>>, promoted |-> <<>>,
                                      updated |-> <<>>, skipped |-> 0]]
          ELSE prom' = [nodes |-> st.nodes, refs |-> st.refs, runs |-> prom.runs + 1,
                        last |-> [ran |-> TRUE, rc |-> 0, json |-> TRUE,
                                  upsert |-> upsert, dry_run |-> dry_run,
                                  ranked |-> [k \in 1..Len(ranked) |-> ranked[k].path],
                                  promoted |-> st.promoted,
                                  updated |-> st.updated, skipped |-> st.skipped]]
    /\ UNCHANGED <<txt, run, calc, scanVars, syncVars>>

NextPromote ==
    \/ ScanStep(1, 1)
    \/ \E top_n \in 1..2, upsert \in BOOLEAN, dry_run \in BOOLEAN, F \in PromoteFailSets :
          Promote(top_n, upsert, dry_run, F)

SpecPromote == InitPromote /\ [][NextPromote]_vars

(***************************************************************************)
(* Part VI -- the comments the system posts, as texts                      *)
(***************************************************************************)

\* A comment is a sequence of words (the text split at blanks and newlines).
\* phases.py _WEAVE_CLOSE_MARKER = "Completed. Weave node"
WEAVE_CLOSE_MARKER == <<"Completed.", "Weave", "node">>

LearningKeys == {"decision", "pattern", "pitfall", "learning"}

\* s.startswith(pat) on word sequences.
StartsWith(s, pat) == Len(s) >= Len(pat) /\ SubSeq(s, 1, Len(pat)) = pat

\* rendering.py build_close_comment: the first line, the learnings of the
\* node in the order decision, pattern, pitfall, learning, the commit links.
LearningLines(learnings) ==
    LET line(k) == IF k \in learnings THEN <<"-", k, "text">> ELSE <<>>
    IN line("decision") \o line("pattern") \o line("pitfall") \o line("learning")

build_close_comment(node) ==
    <<"Completed.", "Weave", "node", node.id, "closed.">>
    \o (IF node.learnings # {} THEN <<"**Learnings:**">> \o LearningLines(node.learnings)
        ELSE <<>>)
    \o (IF node.commits THEN <<"**Commits:**", "-", "abc1234", "subject">> ELSE <<>>)

\* notify.py notify: the comment of each event.  "(check)", "(robot)" and
\* "(stop)" stand for the emoji the texts begin with.
notify_comment(node, event, learning) ==
    CASE event = "work" ->
            <<"(robot)", "AI", "agent", "claimed", "this", "task", "working", "now.",
              "Weave", "node", node.id, "active">>
      [] event = "done" ->
            <<"(check)", "Completed.", "Weave", "node", node.id, "closed.">>
            \o (IF learning THEN <<"**Learning:**", "text">> ELSE <<>>)
      [] event = "block" ->
            <<"(stop)", "Blocked", "by", "blocker.", "Weave", "node", node.id, "blocked">>

\* phases.py _was_closed_by_weave on the fetched body of the last comment.
marker_starts_output(output) == StartsWith(output, WEAVE_CLOSE_MARKER)

marker_in_output(output) == Contains(output, WEAVE_CLOSE_MARKER)

InitComment ==
    /\ \E id \in {"wv-a1", "wv-b2"}, learnings \in SUBSET LearningKeys, commits \in BOOLEAN :
          calc = [op |-> "comment",
                  node |-> [id |-> id, learnings |-> learnings, commits |-> commits],
                  by |-> "", posted |-> <<>>, recognised |-> FALSE]
    /\ txt = IdleText
    /\ run = IdleRun
    /\ prom = IdleProm
    /\ fs = <<>>
    /\ db = EmptyDb
    /\ spc = <<>>
    /\ sloc = <<>>
    /\ shist = <<>>
    /\ graph = <<>>
    /\ edges = {}
    /\ remote = <<>>
    /\ repoLabels = {}
    /\ lock = 0
    /\ pc = <<>>
    /\ loc = <<>>
    /\ ghlog = <<>>

\* Phase 1 closes the issue of a done node (gh issue close --comment); the
\* comment becomes the issue's last one, which a later run fetches.
CloseWithComment ==
    /\ calc.op = "comment" /\ calc.by = ""
    /\ LET comment == build_close_comment(calc.node)
       IN calc' = [calc EXCEPT !.by = "phase1", !.posted = comment,
                               !.recognised = marker_in_output(comment)]
    /\ UNCHANGED <<txt, run, prom, scanVars, syncVars>>

\* A CLI hook reports an event of the node (gh issue comment --body).
Notify(event, learning) ==
    /\ calc.op = "comment" /\ calc.by = ""
    /\ event # "done" => ~learning
    /\ LET comment == notify_comment(calc.node, event, learning)
       IN calc' = [calc EXCEPT !.by = event, !.posted = comment,
                               !.recognised = marker_in_output(comment)]
    /\ UNCHANGED <<txt, run, prom, scanVars, syncVars>>

NextComment ==
    \/ CloseWithComment
    \/ \E event \in {"work", "done", "block"}, learning \in BOOLEAN : Notify(event, learning)

SpecComment == InitComment /\ [][NextComment]_vars

(***************************************************************************)
(* Part VII -- refresh_parent_body beside one full sync                    *)
(***************************************************************************)
\* Process 1 is a full sync (it takes the lock); process 2 is
\* `--refresh-parent wv-b`, which main runs without the lock.
FullSyncProc == 1
RefreshProc == 2
ChildId == "wv-b"

\* data.py get_parent: the target of the implements edge that leaves the
\* node (<<>>: none).
get_parent(id) ==
    IF \E e \in edges : e[1] = id
    THEN LET e == CHOOSE x \in edges : x[1] = id IN <<e[2]>>
    ELSE <<>>

\* `if not raw`: gh issue view printed nothing (no such issue, or an empty
\* body).
raw_is_empty(body) == ~body.human /\ body.hash = <<>>

\* A parent wv-a (not done, paired or not, imported or not) with the one
\* child wv-b, and the open issue #42 of the parent.
InitRefresh ==
    /\ \E a \in {n \in NodeA : ~n.no_sync /\ n.status # "done"},
          b \in {n \in NodeB : n.gh = 0} :
          graph \in {<<a, b>>, <<b, a>>}
    /\ edges = {<<ChildId, "wv-a">>}
    /\ \E body \in Bodies(CHOOSE n \in Range(graph) : n.id = "wv-a", graph) :
          remote = <<[num |-> FirstIssue, title |-> "tA", state |-> "OPEN",
                      body |-> body, labels |-> {"weave-synced", "task", "P2"},
                      last |-> "human"]>>
    /\ repoLabels = ENSURE_LABELS
    /\ lock = 0
    /\ pc = [p \in SyncProcs |-> "start"]
    /\ loc = [p \in SyncProcs |-> InitSyncLoc]
    /\ ghlog = <<>>
    /\ fs = <<>>
    /\ db = EmptyDb
    /\ spc = <<>>
    /\ sloc = <<>>
    /\ shist = <<>>
    /\ txt = IdleText
    /\ run = IdleRun
    /\ calc = IdleCalc
    /\ prom = IdleProm

\* The child status change the refresh is made for: `wv done wv-b`.
WvDone(id) ==
    /\ \E n \in Range(graph) : n.id = id /\ n.status # "done"
    /\ graph' = MapNode(graph, id, LAMBDA n : [n EXCEPT !.status = "done"])
    /\ UNCHANGED <<edges, remote, repoLabels, lock, pc, loc, ghlog>>
    /\ UNCHANGED <<scanVars, helperVars>>

\* refresh_parent_body: get_parent and get_weave_nodes; return False when
\* there is no parent, or the parent has no gh_issue.
RefreshReadGraph(p) ==
    /\ pc[p] = "start"
    /\ LET par == get_parent(ChildId)
           hit == IF par = <<>> THEN {}
                  ELSE {n \in Range(graph) : n.id = par[1] /\ n.gh # 0}
       IN /\ pc' = [pc EXCEPT ![p] = IF hit = {} THEN "exited" ELSE "view"]
          /\ \E dry \in BOOLEAN :
                loc' = [loc EXCEPT ![p] = [@ EXCEPT !.dry = dry, !.nodes = graph]]
    /\ UNCHANGED <<graph, edges, remote, repoLabels, lock, ghlog>>
    /\ UNCHANGED <<scanVars, helperVars>>

\* refresh_parent_body: gh issue view <parent.gh_issue> --json body; return
\* False when nothing came back.
RefreshView(p) ==
    /\ pc[p] = "view"
    /\ LET parent == CHOOSE n \in Range(loc[p].nodes) : n.id = get_parent(ChildId)[1]
           found == HasIssue(remote, parent.gh)
                    /\ ~raw_is_empty(IssueOf(remote, parent.gh).body)
       IN /\ pc' = [pc EXCEPT ![p] = IF found THEN "edit" ELSE "exited"]
          /\ loc' = [loc EXCEPT ![p].issues =
                        IF found THEN <<IssueOf(remote, parent.gh)>> ELSE <<>>]
    /\ UNCHANGED <<graph, edges, remote, repoLabels, lock, ghlog>>
    /\ UNCHANGED <<scanVars, helperVars>>

\* refresh_parent_body: render from the nodes read, compare the hashes,
\* compose from the body read, and gh issue edit --body (unless dry_run).
RefreshEdit(p) ==
    /\ pc[p] = "edit"
    /\ LET parent == CHOOSE n \in Range(loc[p].nodes) : n.id = get_parent(ChildId)[1]
           raw == loc[p].issues[1].body
           block == render_issue_body(parent, loc[p].nodes)
           writes == should_update_body(raw, block) /\ ~loc[p].dry
       IN /\ remote' = IF writes
                       THEN MapIssue(remote, parent.gh, LAMBDA r :
                                [r EXCEPT !.body = compose_issue_body(raw, block)])
                       ELSE remote
          /\ ghlog' = IF writes THEN Append(ghlog, Req("edit", parent.gh, parent.id))
                      ELSE ghlog
          /\ loc' = [loc EXCEPT ![p].handled =
                        IF writes THEN {<<parent.id, parent.gh>>} ELSE {}]
    /\ pc' = [pc EXCEPT ![p] = "exited"]
    /\ UNCHANGED <<graph, edges, repoLabels, lock>>
    /\ UNCHANGED <<scanVars, helperVars>>

\* main, refresh-parent mode.
RefreshStep(p) ==
    \/ RefreshReadGraph(p)
    \/ RefreshView(p)
    \/ RefreshEdit(p)

\* main, full sync mode, for the only process that asks for the lock.
FullSyncStep(p) ==
    \/ AcquireSyncLock(p)
    \/ Setup(p)
    \/ Phase1Node(p)
    \/ Phase2(p)
    \/ Phase3(p)
    \/ SyncExit(p)

NextRefresh ==
    \/ FullSyncStep(FullSyncProc)
    \/ RefreshStep(RefreshProc)
    \/ WvDone(ChildId)

\* One full sync, one parent refresh and the child's status change, in any
\* interleaving.
SpecRefresh == InitRefresh /\ [][NextRefresh]_vars

(***************************************************************************)
(* Part I -- properties                                                    *)
(***************************************************************************)
InScan == {"begun", "analysed", "carried", "gitdone"}

\* What a report command (another connection) reads for scan sid.
RowsComplete(d, sid, files) ==
    /\ \A f \in files : \E r \in d.files : r.path = f /\ r.scan_id = sid
    /\ \A f \in files : \E g \in d.git_stats : g.path = f

\* C1: a reader never sees a scan_meta row of a scan together with missing or
\* partial rows of that scan: every scan row in the committed database has a
\* files row and a git_stats row for each file that scan discovered.
C1_ReadersSeeWholeScans ==
    \A m \in db.scan_meta : RowsComplete(db, m.id, shist[m.id].files)

\* C2: when a scan has failed after begin_scan, the committed database is
\* exactly the database from before that scan started.
C2_FailedScanLeavesDbUnchanged ==
    \A p \in ScanProcs : spc[p] = "failed" => db = sloc[p].dbBefore

\* C9: two scan invocations are never between begin_scan and the final commit
\* at the same time (the scan holds an exclusive lock while it writes).
C9_ScansExcludeEachOther ==
    Cardinality({p \in ScanProcs : spc[p] \in InScan}) <= 1

\* C10: a scan that ends after a completed scan of the same files, with no
\* change of the working tree in between, analysed nothing and has, for every
\* discovered file, a files row equal to the previous scan's row but for the
\* scan_id (and the same for the class metric rows).
C10_UnchangedScanCarriesForward ==
    \A p \in ScanProcs :
        LET l == sloc[p]
            sid == l.scan_id
        IN (spc[p] = "done" /\ shist[sid].prevDone /\ shist[sid].prevSame) =>
              /\ l.to_scan = {}
              /\ \A f \in l.all_files :
                    /\ \E r \in db.files : \E q \in db.files :
                          /\ r.path = f /\ r.scan_id = sid
                          /\ q.path = f /\ q.scan_id = sid - 1
                          /\ r.cx = q.cx
                    /\ \A q \in db.file_metrics :
                          (q.path = f /\ q.scan_id = sid - 1) =>
                              [q EXCEPT !.scan_id = sid] \in db.file_metrics

\* C11: when a scan has completed, every file it discovered -- analysed or
\* carried forward -- has a file_state row holding the file's current mtime
\* and its current blob.
C11_FileStateMatchesWorkingTree ==
    \A p \in ScanProcs :
        spc[p] = "done" =>
            \A f \in sloc[p].all_files :
                \E r \in db.file_state :
                    r.path = f /\ r.mtime = MtimeOf(f) /\ r.git_blob = BlobOf(f)

\* The scan ids inside the retention window once n scans were begun.
Window(n) == {i \in 1..n : i > n - MAX_SCANS}

C13_HotspotsAreThisScans ==
    \A p \in ScanProcs :
        spc[p] = "done" =>
            \A g \in db.git_stats :
                /\ 0 <= g.hotspot /\ g.hotspot <= HotScale
                /\ g \in sloc[p].gstats
                /\ g.path \notin {e.path : e \in sloc[p].entries} => g.hotspot = 0

\* C28: the summary of a completed scan reports files_changed = the number
\* of files analysed in that scan and files_scanned = the number of files
\* the scan discovered, each counted once.
C28_SummaryCountsEachFileOnce ==
    \A p \in ScanProcs :
        spc[p] = "done" =>
            /\ sloc[p].out.files_changed = Cardinality(sloc[p].to_scan)
            /\ sloc[p].out.files_scanned = Cardinality(sloc[p].all_files)

\* C29: a completed scan that directly follows a completed scan of the same
\* files with the same content, mtimes and history prints the quality score
\* the earlier scan printed.
C29_RepeatedScanSameScore ==
    \A p \in ScanProcs :
        LET sid == sloc[p].scan_id
        IN (/\ spc[p] = "done"
            /\ sid \in DOMAIN shist /\ (sid - 1) \in DOMAIN shist
            /\ shist[sid].prevDone /\ shist[sid].prevSame) =>
               sloc[p].out.quality_score = shist[sid - 1].score

\* C30: after a first scan of a.py (complexity 20, churn 100) and b.sh
\* (complexity 5, churn 10), `hotspots --top 10` lists a.py first with hotspot
\* 1.0 and complexity 20 and b.sh second with hotspot 0.0.
C30_FreshScanHotspotReport ==
    \A p \in ScanProcs :
        (/\ spc[p] = "done"
         /\ db.seq = 1
         /\ sloc[p].all_files = {"a.py", "b.sh"}
         /\ CxOf("a.py", fs["a.py"].ver) = 20 /\ ChurnOf("a.py") = 100
         /\ CxOf("b.sh", fs["b.sh"].ver) = 5 /\ ChurnOf("b.sh") = 10) =>
            LET report == cmd_hotspots(db, 10)
            IN /\ Len(report) = 2
               /\ report[1] = [path |-> "a.py", hotspot |-> HotScale, complexity |-> 20]
               /\ report[2].path = "b.sh" /\ report[2].hotspot = 0

\* C37: whatever scans came before (scans that stopped after begin_scan,
\* scans with another exclude list), a scan that has completed holds exactly
\* one files row for every file it discovered -- also for the files it judged
\* unchanged.
C37_CompletedScanHasRowPerFile ==
    \A p \in ScanProcs :
        spc[p] = "done" =>
            \A f \in sloc[p].all_files :
                Cardinality({r \in db.files :
                                r.path = f /\ r.scan_id = sloc[p].scan_id}) = 1

(***************************************************************************)
(* Part II -- properties                                                   *)
(***************************************************************************)
Running == {"locked", "p1", "p3", "done"}       \* positions that hold the lock
InPhases == {"p1", "p3", "done"}                \* set-up done, not yet exited
Phase1Over(p) == pc[p] \in {"p3", "done"} \/ (pc[p] = "p1" /\ loc[p].i > Len(loc[p].nodes))

\* The requests process p has issued since it started.
Issued(p) == {ghlog[j] : j \in (loc[p].snap.log + 1)..Len(ghlog)}

\* The graph p started on holds a done node and a todo node that both carry m,
\* and issue m was closed.
PhantomCase(p, m) ==
    /\ \E a \in Range(loc[p].snap.nodes), b \in Range(loc[p].snap.nodes) :
          a.status = "done" /\ a.gh = m /\ b.status = "todo" /\ b.gh = m
    /\ HasIssue(loc[p].snap.issues, m)
    /\ IssueOf(loc[p].snap.issues, m).state = "CLOSED"

\* C3: with a done node and a todo node both carrying issue number m and
\* issue m closed, the run issues no reopen of m, m stays closed, and once
\* phase 1 is over the skipped counter is at least 1 -- in either node order.
C3_PhantomTodoDoesNotReopen ==
    \A p \in SyncProcs : \A m \in {FirstIssue} :
        (pc[p] \in InPhases /\ PhantomCase(p, m)) =>
            /\ ~\E r \in Issued(p) : r.op = "reopen" /\ r.num = m
            /\ IssueOf(remote, m).state = "CLOSED"
            /\ Phase1Over(p) => loc[p].stats.skipped >= 1

C3_Witness ==
    \E p \in SyncProcs :
        /\ pc[p] = "p3" /\ PhantomCase(p, FirstIssue) /\ ~loc[p].dry
        /\ loc[p].snap.nodes[1].status = "todo"
        /\ ~no_sync(loc[p].snap.nodes[2])
        /\ loc[p].snap.issues[1].last = "human"
        /\ loc[p].stats.skipped >= 1

\* The nodes of the list p started on that carry m in their metadata.
Carriers(p, m) == {k \in 1..Len(loc[p].snap.nodes) : loc[p].snap.nodes[k].gh = m}
Handled(p, m) == {k \in Carriers(p, m) : <<loc[p].snap.nodes[k].id, m>> \in loc[p].handled}

\* C4: for an issue number carried by more than one node, phase 1 handles at
\* most one of those nodes against the issue, and it is the first of them in
\* list order that is not excluded from sync; the others are skipped.
C4_OneNodePerDuplicateIssue ==
    \A p \in SyncProcs : \A m \in {FirstIssue} :
        (pc[p] \in InPhases /\ Cardinality(Carriers(p, m)) > 1
                            /\ HasIssue(loc[p].snap.issues, m)) =>
            /\ Cardinality(Handled(p, m)) <= 1
            /\ \A k \in Handled(p, m) : \A j \in Carriers(p, m) :
                  j < k => (no_sync(loc[p].snap.nodes[j]) \/ is_test(loc[p].snap.nodes[j]))
            /\ Phase1Over(p) =>
                  loc[p].stats.skipped >= Cardinality(Carriers(p, m) \ Handled(p, m))

C4_Witness ==
    \E p \in SyncProcs :
        /\ pc[p] = "p3" /\ Cardinality(Carriers(p, FirstIssue)) = 2
        /\ \A k \in 1..2 : ~no_sync(loc[p].snap.nodes[k])
        /\ Handled(p, FirstIssue) = {1}
        /\ loc[p].stats.skipped = 1

\* C5 (as stated): no reopen is ever issued for an issue whose most recent
\* comment begins with the close marker.
C5_MarkedIssueNeverReopened ==
    \A j \in 1..Len(ghlog) : ghlog[j].op = "reopen" => ~ghlog[j].marker

\* C5 (amended): an issue whose most recent comment begins with the close
\* marker is reopened only when the fetch of that comment failed.
C5_MarkedIssueReopenedOnlyOnFetchError ==
    \A j \in 1..Len(ghlog) :
        (ghlog[j].op = "reopen" /\ ghlog[j].marker) => ~ghlog[j].fetched

C5_Witness ==
    \E p \in SyncProcs :
        /\ pc[p] = "p3" /\ ~loc[p].dry
        /\ loc[p].snap.issues[1].state = "CLOSED"
        /\ loc[p].snap.issues[1].last = "weave"
        /\ \A n \in Range(loc[p].snap.nodes) : n.status = "active" /\ ~no_sync(n)
        /\ loc[p].handled # {}
        /\ IssueOf(remote, FirstIssue).state = "CLOSED"
        /\ loc[p].stats.skipped >= 1

\* C6: in a run without --dry-run, when phase 1 comes to a node that is not
\* done and is matched to a closed issue, no done node carries that issue
\* number and the issue's last comment has no close marker, the step reopens
\* the issue and posts the reopen comment.
C6_ClosedIssueOfOpenNodeIsReopened ==
    [][\A p \in SyncProcs :
          LET l == loc[p]
              node == l.nodes[l.i]
              m == gh_match(node, l.issues)
          IN (/\ pc[p] = "p1" /\ l.i <= Len(l.nodes) /\ loc'[p].i = l.i + 1
              /\ ~l.dry
              /\ ~no_sync(node) /\ ~is_test(node)
              /\ m # 0
              /\ node.status # "done"
              /\ IssueOf(remote, m).state = "CLOSED"
              /\ ~\E n \in Range(graph) : n.gh = m /\ n.status = "done"
              /\ ~MarkerIn(IssueOf(remote, m).last))
             => /\ IssueOf(remote', m).state = "OPEN"
                /\ IssueOf(remote', m).last = "reopen"
                /\ \E j \in (Len(ghlog) + 1)..Len(ghlog') :
                      ghlog'[j].op = "reopen" /\ ghlog'[j].num = m
                                             /\ ghlog'[j].by = node.id]_vars

C6_Witness ==
    \E j \in 1..Len(ghlog) :
        /\ ghlog[j].op = "reopen" /\ ~ghlog[j].marker /\ ghlog[j].fetched
        /\ j = Len(ghlog)
        /\ IssueOf(remote, ghlog[j].num).state = "OPEN"
        /\ IssueOf(remote, ghlog[j].num).last = "reopen"

\* C7: a step of a run started with --dry-run changes nothing on GitHub (no
\* issue, no label of the repository), nothing in the graph, and issues no
\* mutating request.
C7_DryRunMutatesNothing ==
    [][\A p \in SyncProcs :
          (pc'[p] # pc[p] /\ loc'[p].dry) =>
              /\ remote' = remote
              /\ graph' = graph
              /\ repoLabels' = repoLabels
              /\ ghlog' = ghlog]_vars

\* The phase a mutating request belongs to: wv add is phase 2, wv done is
\* phase 3, everything else (gh issue create / edit / close / reopen, the
\* label edit, the metadata back-fill) is phase 1.
PhaseOfOp(op) == IF op = "add" THEN 2 ELSE IF op = "done" THEN 3 ELSE 1

\* The positions in the request history of what p has issued (p holds the lock).
IssuedAt(p) == (loc[p].snap.log + 1)..Len(ghlog)

\* C14: the requests of one run are ordered by phase (all of phase 1, then
\* all of phase 2, then all of phase 3); phase 2 starts only when phase 1 has
\* visited every node; the node list of phase 2 holds the metadata that
\* phase 1 back-filled (no node is added for a back-filled issue) and the
\* node list of phase 3 holds the nodes that phase 2 added.
C14_PhasesRunInOrder ==
    \A p \in SyncProcs :
        pc[p] \in InPhases =>
            /\ \A i \in IssuedAt(p) : \A j \in IssuedAt(p) :
                  i < j => PhaseOfOp(ghlog[i].op) <= PhaseOfOp(ghlog[j].op)
            /\ pc[p] = "p1" =>
                  \A i \in IssuedAt(p) : PhaseOfOp(ghlog[i].op) = 1
            /\ pc[p] \in {"p3", "done"} =>
                  /\ loc[p].i > Len(loc[p].snap.nodes)
                  /\ \A i \in IssuedAt(p) :
                        ghlog[i].op = "backfill" =>
                           /\ \E n \in Range(loc[p].nodes) :
                                 n.id = ghlog[i].by /\ n.gh = ghlog[i].num
                           /\ ~\E j \in IssuedAt(p) :
                                 ghlog[j].op = "add" /\ ghlog[j].num = ghlog[i].num
            /\ pc[p] = "p3" =>
                  \A i \in IssuedAt(p) : PhaseOfOp(ghlog[i].op) <= 2
            /\ pc[p] = "done" =>
                  \A i \in IssuedAt(p) :
                     ghlog[i].op = "add" =>
                        \E n \in Range(loc[p].nodes) :
                           n.id = ghlog[i].by /\ n.gh = ghlog[i].num

C14_Witness ==
    \E p \in SyncProcs :
        /\ pc[p] = "done"
        /\ \E i \in IssuedAt(p), j \in IssuedAt(p) :
              /\ ghlog[i].op = "backfill" /\ ghlog[j].op = "add" /\ i < j
              /\ \E n \in Range(loc[p].nodes) : n.id = ghlog[j].by
              /\ \E n \in Range(loc[p].nodes) :
                    n.id = ghlog[i].by /\ n.gh = ghlog[i].num

\* The state of issue m that the last close / reopen request of p asked for.
LastStateAsked(p, m) ==
    LET at == {i \in IssuedAt(p) : ghlog[i].num = m /\ ghlog[i].op \in {"close", "reopen"}}
    IN IF ghlog[Max(at)].op = "close" THEN "CLOSED" ELSE "OPEN"

StateAsked(p, m) ==
    \E i \in IssuedAt(p) : ghlog[i].num = m /\ ghlog[i].op \in {"close", "reopen"}

\* Between any two steps of run p the in-memory issue list holds, for every
\* issue the run closed or reopened, the state it last asked for.
MemoryFollowsRequests(p) ==
    \A k \in 1..Len(loc[p].issues) :
        StateAsked(p, loc[p].issues[k].num) =>
            loc[p].issues[k].state = LastStateAsked(p, loc[p].issues[k].num)

PairedIssueClosed(node) ==
    /\ node.gh # 0
    /\ HasIssue(remote, node.gh)
    /\ IssueOf(remote, node.gh).state = "CLOSED"

\* C16: the phase-3 step of a run without --dry-run sets to done the status
\* of every node that is not done and whose paired issue is closed, and
\* leaves the status of every other node (and the node list) as it was.
C16_Phase3MarksExactlyClosedPairs ==
    [][\A p \in SyncProcs :
          (pc[p] = "p3" /\ pc'[p] = "done" /\ ~loc[p].dry) =>
              /\ Len(graph') = Len(graph)
              /\ \A k \in 1..Len(graph) :
                    /\ graph'[k].id = graph[k].id
                    /\ graph'[k].status =
                          IF graph[k].status # "done" /\ PairedIssueClosed(graph[k])
                          THEN "done" ELSE graph[k].status]_vars

C16_Witness ==
    \E p \in SyncProcs :
        /\ pc[p] = "done" /\ ~loc[p].dry
        /\ \E i \in IssuedAt(p) :
              /\ ghlog[i].op = "done"
              /\ \E n \in Range(graph) : n.id = ghlog[i].by /\ n.status = "done"
        /\ \E n \in Range(graph) : n.status # "done" /\ n.gh # 0

\* The pairs <<k, m>>: phase 1 of run p handled the k-th node of its list
\* against issue m and had matched it by the Weave ID marker in the body of
\* the issue, the node carrying no gh_issue.
MatchedByMarker(p) ==
    {x \in (1..Len(loc[p].snap.nodes)) \X {r.num : r \in Range(loc[p].issues)} :
        /\ <<loc[p].snap.nodes[x[1]].id, x[2]>> \in loc[p].handled
        /\ loc[p].snap.nodes[x[1]].gh = 0}

NodeById(id) == CHOOSE n \in Range(graph) : n.id = id

NewAdds == {i \in (Len(ghlog) + 1)..Len(ghlog') : ghlog'[i].op = "add"}

\* C18: every node a phase-2 step adds is for an issue that is open, has no
\* weave:test label, is carried by no node of the graph and has no Weave ID
\* marker of a node of the graph in its body; the step adds one node per
\* request and nothing else to the graph; and no issue ever gets two nodes
\* added for it.
C18_Phase2AddsOnlyUntrackedOpenIssues ==
    [][\A p \in SyncProcs :
          (pc[p] = "p1" /\ pc'[p] = "p3") =>
              /\ \A i \in NewAdds :
                    LET issue == IssueOf(remote, ghlog'[i].num)
                    IN /\ issue.state = "OPEN"
                       /\ "weave:test" \notin issue.labels
                       /\ ~\E n \in Range(graph) : n.gh = issue.num
                       /\ issue.body.wids \cap {n.id : n \in Range(graph)} = {}
                       /\ \E n \in Range(graph') :
                             n.id = ghlog'[i].by /\ n.gh = issue.num
              /\ Len(graph') = Len(graph) + Cardinality(NewAdds)
              /\ \A k \in 1..Len(graph) : graph'[k] = graph[k]
              /\ \A i \in NewAdds : \A j \in 1..Len(ghlog') :
                    (ghlog'[j].op = "add" /\ ghlog'[j].num = ghlog'[i].num) => j = i]_vars

C18_Witness ==
    /\ \E i \in 1..Len(ghlog) :
          /\ ghlog[i].op = "add" /\ ghlog[i].num = FirstIssue
          /\ \E n \in Range(graph) :
                n.id = ghlog[i].by /\ n.gh = FirstIssue /\ n.source = "github"
    /\ \A q \in SyncProcs : pc[q] = "exited" /\ ~loc[q].dry

\* The positions of the back-fill requests a step appends to the history.
NewBackfills == {i \in (Len(ghlog) + 1)..Len(ghlog') : ghlog'[i].op = "backfill"}

\* C19: no step writes a gh_issue onto a node while another node of the
\* graph carries that number, and no step increases the number of issue
\* numbers that more than one node carries.
C19_BackfillNeverDuplicates ==
    [][/\ \A i \in NewBackfills :
             /\ ~\E n \in Range(graph) : n.gh = ghlog'[i].num /\ n.id # ghlog'[i].by
             /\ \E n \in Range(graph') : n.gh = ghlog'[i].num /\ n.id = ghlog'[i].by
       /\ Cardinality(dupes_of(graph')) <= Cardinality(dupes_of(graph))]_vars

C19_Witness ==
    \E p \in SyncProcs :
        /\ pc[p] = "p3" /\ ~loc[p].dry
        /\ dupes_of(graph) = {}
        /\ \E x \in MatchedByMarker(p) :
              /\ NodeById(loc[p].snap.nodes[x[1]].id).gh = 0
              /\ \E n \in Range(graph) : n.gh = x[2]
        /\ ~\E i \in IssuedAt(p) : ghlog[i].op = "backfill"

\* C20: no gh issue edit --body is ever issued on behalf of a node that was
\* imported from GitHub (source = "github") and has no implements-children.
C20_ImportedLeafNeverRewritesBody ==
    \A i \in 1..Len(ghlog) :
        ghlog[i].op = "edit" =>
            \/ NodeById(ghlog[i].by).source # "github"
            \/ get_children(ghlog[i].by) # {}

C20_Witness ==
    \E p \in SyncProcs :
        /\ pc[p] = "p3" /\ ~loc[p].dry
        /\ \E k \in 1..Len(loc[p].snap.nodes) :
              LET node == loc[p].snap.nodes[k]
              IN /\ node.source = "github"
                 /\ <<node.id, FirstIssue>> \in loc[p].handled
                 /\ should_update_body(loc[p].snap.issues[1].body,
                                        render_issue_body(node, loc[p].snap.nodes))
                 /\ IssueOf(remote, FirstIssue).body = loc[p].snap.issues[1].body
                 /\ \E i \in IssuedAt(p) : ghlog[i].by = node.id /\ ghlog[i].op = "label"

\* The requests one step appends to the log.
NewRequests == {ghlog'[j] : j \in (Len(ghlog) + 1)..Len(ghlog')}

\* C21: a gh issue edit --body is issued for an issue only when the body the
\* issue has at that moment carries no machine block or a block whose hash
\* differs from the hash of the block just rendered for the node; and the
\* body of an existing issue changes only by such a request (equal hashes:
\* no write).
C21_BodyWrittenOnlyWhenHashDiffers ==
    [][/\ \A p \in SyncProcs : \A e \in NewRequests :
             (pc[p] = "p1" /\ e.op = "edit") =>
                 LET node == loc[p].nodes[loc[p].i]
                     body == IssueOf(remote, e.num).body
                     block == render_issue_body(node, loc[p].nodes)
                 IN /\ e.by = node.id
                    /\ body.hash = <<>> \/ body.hash # block.hash
                    /\ IssueOf(remote', e.num).body.hash = block.hash
       /\ \A r \in Range(remote) :
             IssueOf(remote', r.num).body # r.body =>
                 \E e \in NewRequests : e.op = "edit" /\ e.num = r.num]_vars

\* A run without --dry-run has handled a node whose rendered hash equals the
\* hash in the issue's body, sent label requests for it, and sent no edit.
C21_Witness ==
    \E p \in SyncProcs :
        /\ pc[p] = "p3" /\ ~loc[p].dry
        /\ \E k \in 1..Len(loc[p].snap.nodes) :
              LET node == loc[p].snap.nodes[k]
                  body == loc[p].snap.issues[1].body
              IN /\ node.source # "github"
                 /\ <<node.id, FirstIssue>> \in loc[p].handled
                 /\ body.hash # <<>>
                 /\ body.hash = render_issue_body(node, loc[p].snap.nodes).hash
                 /\ \E i \in IssuedAt(p) : ghlog[i].by = node.id /\ ghlog[i].op = "label"
                 /\ ~\E i \in IssuedAt(p) : ghlog[i].op = "edit"

\* C23: label reconciliation of an issue adds exactly the labels derived for
\* the node that the fetched label list lacks, removes exactly the status
\* labels (weave:active, weave:blocked) in that list that are not derived for
\* the node, and no step ever removes any other label from an issue.
C23_LabelsAddMissingRemoveStaleStatus ==
    [][\A r \in Range(remote) :
          LET r2 == IssueOf(remote', r.num)
              added == r2.labels \ r.labels
              removed == r.labels \ r2.labels
              reqs == {e \in NewRequests : e.op = "label" /\ e.num = r.num}
          IN /\ removed \subseteq StatusLabelNames
             /\ (added # {} \/ removed # {}) => reqs # {}
             /\ \A e \in reqs : \E p \in SyncProcs :
                   /\ pc[p] = "p1"
                   /\ LET node == loc[p].nodes[loc[p].i]
                          desired == get_labels_for_node(node)
                          current == IssueOf(loc[p].issues, r.num).labels
                      IN /\ e.by = node.id
                         /\ added \subseteq desired \ current
                         /\ desired \ current \subseteq r2.labels
                         /\ removed \subseteq (current \cap StatusLabelNames) \ desired
                         /\ r2.labels \cap ((current \cap StatusLabelNames) \ desired) = {}
                         /\ (desired \ current) \cup
                               ((current \cap StatusLabelNames) \ desired) # {}]_vars

\* A run took weave:active off an issue whose node is not active and left the
\* label "bug", which is not derived for the node, in place.
C23_Witness ==
    /\ \E i \in 1..Len(ghlog) : ghlog[i].op = "label" /\ ghlog[i].num = FirstIssue
    /\ IssueOf(remote, FirstIssue).labels = {"weave-synced", "task", "P2", "bug"}

\* C26: when a command issued for one node or one issue fails (create, edit,
\* label, close, reopen, back-fill, wv add, wv done), the run is not aborted:
\* phase 2 starts only after phase 1 has visited every node, and a run that
\* is past phase 2 has decided on every issue of its list (tracked, marked,
\* not open, imported, or the import failed) -- whatever failed before.
C26_ItemFailureNeverAbortsRun ==
    \A p \in SyncProcs :
        /\ pc[p] # "aborted"
        /\ pc[p] \in {"p3", "done"} =>
              /\ loc[p].i > Len(loc[p].snap.nodes)
              /\ loc[p].dry \/ \A r \in Range(loc[p].issues) :
                    \/ r.state # "OPEN"
                    \/ \E n \in Range(loc[p].nodes) : n.gh = r.num \/ n.id \in r.body.wids
                    \/ "add" \in loc[p].failed

\* A run ended after the create for its first node failed: the second node
\* was still handled in phase 1 and phases 2 and 3 ran.
C26_Witness ==
    \E p \in SyncProcs :
        /\ pc[p] = "done" /\ ~loc[p].dry
        /\ "create" \in loc[p].failed
        /\ \E k \in 1..Len(ghlog) :
              /\ ghlog[k].op = "create" /\ ghlog[k].num = 0
              /\ \E j \in (k + 1)..Len(ghlog) : ghlog[j].by # ghlog[k].by

\* C8: at most one full sync is past _acquire_sync_lock at a time and it is
\* the holder of the lock; an invocation that found the lock held has read
\* nothing (its locals are untouched) while another process holds the lock.
C8_OneSyncHoldsTheLock ==
    /\ Cardinality({p \in SyncProcs : pc[p] \in Running}) <= 1
    /\ \A p \in SyncProcs : pc[p] \in Running => lock = p
    /\ \A p \in SyncProcs : pc[p] = "lockfail" => loc[p] = InitSyncLoc

C8_Witness ==
    \E p \in SyncProcs, q \in SyncProcs :
        pc[p] = "lockfail" /\ pc[q] = "p1" /\ lock = q /\ loc[q].i = 2

\* The requests that write an existing issue: its body, labels or state.
IssueWrites == {"edit", "label", "close", "reopen"}

\* C35: in one phase-1 pass no remote issue is written (body, labels or
\* open/closed state) on behalf of more than one node, however each node was
\* paired with the issue (metadata gh_issue or the body-marker fallback).
C35_OneNodePerIssuePerPass ==
    \A p \in SyncProcs :
        pc[p] \in InPhases =>
            \A i \in IssuedAt(p) : \A j \in IssuedAt(p) :
                (/\ ghlog[i].op \in IssueWrites /\ ghlog[j].op \in IssueWrites
                 /\ ghlog[i].num = ghlog[j].num)
                => ghlog[i].by = ghlog[j].by

\* C36: when a full reconciliation without --dry-run has run its three
\* phases, every node that is not excluded (not test, not no_sync) and that
\* carried the number of an existing issue when the run started is done
\* exactly if that issue is closed, whatever the order of the node list and
\* also when two nodes carry the same issue number.
C36_DoneIffClosedAfterSync ==
    \A p \in SyncProcs :
        (pc[p] = "done" /\ ~loc[p].dry) =>
            \A k \in 1..Len(loc[p].snap.nodes) :
                LET was == loc[p].snap.nodes[k]
                    n == NodeById(was.id)
                IN (/\ ~is_test(n) /\ ~no_sync(n)
                    /\ was.gh # 0 /\ HasIssue(loc[p].snap.issues, was.gh))
                   => (n.status = "done" <=> IssueOf(remote, n.gh).state = "CLOSED")

\* Run q follows a full run of p without --dry-run: p went through its three
\* phases and exited before q took the lock, nothing else touched the graph
\* or the tracker in between, and no fetch failed in either run.
RunsBackToBack(p, q) ==
    /\ p # q
    /\ pc[p] = "exited" /\ loc[p].snap.nodes # <<>> /\ ~loc[p].dry
    /\ pc[q] \in InPhases /\ ~loc[q].dry
    /\ \A j \in 1..Len(ghlog) : ghlog[j].fetched

\* C38: a full reconciliation run right after a successful one, with no
\* change to the graph or the tracker in between, issues no mutating request
\* at all: no create, edit, label change, close, reopen, wv add, wv done or
\* metadata back-fill.
C38_SecondRunMutatesNothing ==
    \A p \in SyncProcs : \A q \in SyncProcs :
        RunsBackToBack(p, q) => IssuedAt(q) = {}

\* A dry run of p and then a real run of q on the graph and the issues p
\* started on (a dry run leaves both as they were).  No issue'"'"'s last comment
\* holds the close marker, so that the outcome of fetching it plays no part.
DryThenReal(p, q) ==
    /\ p # q
    /\ pc[p] = "exited" /\ loc[p].snap.nodes # <<>> /\ loc[p].dry
    /\ pc[q] = "done" /\ ~loc[q].dry
    /\ loc[q].snap.nodes = loc[p].snap.nodes
    /\ loc[q].snap.issues = loc[p].snap.issues
    /\ \A k \in 1..Len(loc[p].snap.issues) : ~MarkerIn(loc[p].snap.issues[k].last)

\* C39: started from the same graph and remote state, a dry run reports the
\* same counters (created, updated, closed, reopened, skipped, already
\* synced, nodes created, nodes closed) as the real run reports.
C39_DryRunCountsLikeRealRun ==
    \A p \in SyncProcs : \A q \in SyncProcs :
        DryThenReal(p, q) => loc[p].stats = loc[q].stats

(***************************************************************************)
(* Part III -- properties                                                  *)
(***************************************************************************)
\* The body the rewrites started from is H + M_old: one block, at the end.
HumanAbove(s) ==
    /\ Len(s) >= 1
    /\ s[Len(s)] \in Blocks
    /\ \A i \in 1..(Len(s) - 1) : s[i] \notin Blocks

HumanOf(s) == SubSeq(s, 1, Len(s) - 1)

Attempts == Len(run.calls)

PlainFailure(inv) ==
    /\ inv.out.rc = 1
    /\ ~\E i \in 1..(Len(inv.out.stderr) - 1) :
          <<LowerWord(inv.out.stderr[i]), LowerWord(inv.out.stderr[i + 1])>>
              \in {<<"rate", "limit">>, <<"abuse", "detection">>}

C25_PlainFailureNeverRetried ==
    run.fn = "_run" =>
        \A j \in 1..Attempts :
            PlainFailure(run.calls[j]) =>
                /\ Attempts = j
                /\ Len(run.slept) = j - 1
                /\ run.pc = IF run.check THEN "raised" ELSE "returned"

\* "HTTP 429" on the first attempt with check=False: returned after one attempt.
C25_Witness ==
    /\ run.fn = "_run" /\ run.pc = "returned" /\ ~run.check
    /\ Attempts = 1
    /\ run.calls[1].out = [rc |-> 1, stderr |-> <<"HTTP", "429">>]
    /\ run.slept = <<>>

\* C27: every invocation of an external command carries a timeout.
C27_EveryInvocationHasTimeout ==
    \A j \in 1..Attempts : run.calls[j].timeout # NoTimeout


(***************************************************************************)
(* Part IV -- properties                                                   *)
(***************************************************************************)

\* C31 as stated: adding one file with hotspot > 0.5, all else unchanged,
\* lowers the quality score by exactly 5, or to the clamp at 0.
C31_HotFileCostsExactlyFive ==
    (calc.op = "score" /\ calc.adds > 0) => calc.score = Max({0, calc.prev - 5})

\* What the added file takes off for its own complexity.
ComplexityDeduction(cx) ==
    IF cx >= CC_CRITICAL THEN 3 ELSE IF cx >= CC_WARNING THEN 1 ELSE 0

\* C31 amended: adding one file with hotspot > 0.5, all else unchanged, lowers
\* the quality score by exactly 5 plus the file's own complexity deduction
\* (3 when its complexity is >= 30, 1 when it is in 15..29, 0 below 15), or
\* to the clamp at 0.
C31_HotFileCostsFivePlusComplexity ==
    (calc.op = "score" /\ calc.adds > 0)
        => calc.score = Max({0, calc.prev - 5 - ComplexityDeduction(calc.added.cx)})

\* A critical hot file was added to a project scoring 100 and took 8 off.
C31_Witness ==
    /\ calc.op = "score" /\ calc.adds > 0
    /\ calc.added.cx >= CC_CRITICAL
    /\ calc.prev = 100 /\ calc.score = 92

Dominates(f, g) == calc.cx[f] > calc.cx[g] /\ calc.churn[f] > calc.churn[g]

FindingNodes(g, fid) ==
    {g.nodes[k].id : k \in {i \in DOMAIN g.nodes :
                                /\ g.nodes[i].meta.valid
                                /\ g.nodes[i].meta.quality_finding_id = fid}}
FindingRefs(g, fid) == {e \in g.refs : e[1] \in FindingNodes(g, fid)}

\* C33: once promote has created a node for a finding id, a later promote of
\* the same hotspot without --upsert creates no further node and no further
\* edge for that finding id, and reports the finding as skipped and promoted
\* as empty.
C33_PromoteTwiceCreatesNothing ==
    [][\A f \in Files :
          (/\ prom'.runs = prom.runs + 1
           /\ ~prom'.last.upsert
           /\ FindingNodes(prom, finding_id(f)) # {}
           /\ f \in Range(prom'.last.ranked))
          => /\ FindingNodes(prom', finding_id(f)) = FindingNodes(prom, finding_id(f))
             /\ FindingRefs(prom', finding_id(f)) = FindingRefs(prom, finding_id(f))
             /\ prom'.last.skipped >= 1
             /\ prom'.last.promoted = <<>>]_vars

(***************************************************************************)
(* Part VI -- properties                                                   *)
(***************************************************************************)

RefreshedFromLatest ==
    /\ pc[FullSyncProc] = "exited" /\ loc[FullSyncProc].snap.nodes # <<>>
    /\ pc[RefreshProc] = "exited" /\ ~loc[RefreshProc].dry
    /\ Len(loc[RefreshProc].issues) = 1
    /\ render_issue_body(NodeById("wv-a"), loc[RefreshProc].nodes)
           = render_issue_body(NodeById("wv-a"), graph)

\* C40: a parent refresh (no lock) that runs beside a full sync loses no
\* update of the parent issue's body -- once both have finished, the
\* machine block of the body is the one rendered from the latest graph,
\* never an older block written over a newer one.
C40_ParentBodyRenderedFromLatestGraph ==
    RefreshedFromLatest =>
        IssueOf(remote, loc[RefreshProc].issues[1].num).body.hash
            = render_issue_body(NodeById("wv-a"), graph).hash

====
